---------------------------- MODULE Spec2Model ----------------------------
(* Verification model of the CrawlEnginePro RAG pipeline services:        *)
(* the Ingestion API, the Chunking Orchestrator and the Milvus Storage     *)
(* service (document store), the retry helpers of the orchestrators and    *)
(* of the LLM callers, the three in-process caches, the rate-limiting      *)
(* semaphores, the Retrieval API handler, the stored records, the intent   *)
(* service with its pattern learner, the metadata boost of the search      *)
(* service, the batch endpoint and the response cleaning of the metadata   *)
(* service, the access middleware of the internal services, the cache      *)
(* operations on the event loop, the dicts the caches serve and the keys   *)
(* of the caches.                                                          *)
(*                                                                         *)
(* Each subsystem has its own group of variables and its own               *)
(* specification (SpecIngest, SpecRetry, SpecCache, SpecSem,               *)
(* SpecRetrieve, SpecRecords, SpecIntent, SpecLearn, SpecBoost,            *)
(* SpecBatch, SpecMeta, SpecAccess, SpecLoop, SpecServed, SpecKeyed); a    *)
(* specification leaves the other groups unchanged.                        *)
EXTENDS Integers, Sequences, FiniteSets, Bags, TLC

-----------------------------------------------------------------------------
(* Bounds of the model *)

\* largest number of chunks perform_chunking yields for a modelled text
MaxChunks == 2

\* largest number of entities kept in one collection of the modelled store
MaxEntities == 4

Docs == {"d1", "d2"}
Tenants == {"t1", "t2"}
Colls == {"c1"}

-----------------------------------------------------------------------------
VARIABLES
    \* ---- document store and ingestion pipeline ----
    collections,    \* Milvus: collection name -> bag of stored entities
    created,        \* Milvus: names of the collections that exist
    req,            \* the ingestion request being handled (pc = "idle": none)
    metadata_list,  \* orchestrate_pipeline: per chunk index, the metadata task
    embeddings,     \* orchestrate_pipeline: state of the embeddings request
    response,       \* outcome of the last finished ingestion API request
    \* ---- one downstream call and the retry discipline of its caller ----
    call,           \* the call in progress (st = "idle": none)
    \* ---- one in-process cache and the handler in front of it ----
    cache_kind,     \* which cache class this is: "metadata", "llm", "embeddings"
    cache,          \* the entries, in the iteration order of the dict
    now,            \* time.time()
    pending,        \* per key: handlers that missed and await the downstream call
    last_outcome,   \* how the last downstream call of a handler ended
    lru,            \* history: resident keys by their last get hit or set
    lastSet,        \* history: per key, the value and time of the last set
    \* ---- one service process, its semaphore and the requests it handles ----
    proc,           \* which process this is: "ingestion", "retrieval", "metadata"
    sem,            \* asyncio.Semaphore._value of the semaphore of the process
    at,             \* per code location: the requests (tasks) that are there
    \* ---- one retrieval request and its intent task ----
    rq,             \* the retrieval request being handled (pc = "idle": none)
    intent_task,    \* asyncio task of call_intent_service
    intent_data,    \* what `await intent_task` gave the handler
    stages,         \* the pipeline stages the handler has completed, in order
    \* ---- one orchestrate_pipeline run and the records it stores ----
    run,            \* the run in progress (pc = "idle": none) and its data
    milvus,         \* the collection: whether it exists, its dim, its rows
    storage_reply,  \* the answer to the last POST /v1/collection/create
    \* ---- the intent service: one analyze request, its logs and its queue ----
    analysis,       \* the analyze request in progress (pc = "idle": none)
    verdict,        \* the response to the last analyze request
    query_logs,     \* entries in rejected_queries / low_confidence_queries.jsonl
    learning_queue, \* PatternLearner.queue: its length and its last item
    \* ---- the pattern learner of the intent service and the library ----
    learner,        \* PatternLearner: queue, processing, the cycle under way
    library,        \* pattern_library.json and the two matchers' copies of it
    \* ---- the search service: one search request and its boosted result ----
    search,         \* the last POST /search: request, Milvus hit, result item
    \* ---- the metadata service: one POST /v1/metadata/batch ----
    batch,          \* the chunk tasks, the results built, the response
    \* ---- the metadata service: post-processing of one extraction ----
    meta,           \* the field before and after clean_metadata_response
    \* ---- the security middleware of the internal services ----
    access,         \* the last request seen by a security_middleware
    \* ---- the event loop of one caching service ----
    loop,           \* the event loop of a caching service and its coroutines
    \* ---- one entry of a cache and the hits served from it ----
    served,         \* one cache entry: the stored objects and the last response
    \* ---- one embeddings or metadata service and its cache ----
    keyed           \* the cache of one service, the request it was last asked and its answer

ingestVars == <<collections, created, req, metadata_list, embeddings, response>>
retryVars == <<call>>
cacheVars == <<cache_kind, cache, now, pending, last_outcome, lru, lastSet>>

semVars == <<proc, sem, at>>
retrieveVars == <<rq, intent_task, intent_data, stages>>
recordVars == <<run, milvus, storage_reply>>
intentVars == <<analysis, verdict, query_logs, learning_queue>>
learnVars == <<learner, library>>
boostVars == <<search>>
batchVars == <<batch>>
metaVars == <<meta>>
accessVars == <<access>>
loopVars == <<loop>>
servedVars == <<served>>
keyedVars == <<keyed>>
restVars == <<learnVars, boostVars, batchVars, metaVars, accessVars, loopVars, servedVars, keyedVars>>

vars ==
    <<ingestVars, retryVars, cacheVars, semVars, retrieveVars, recordVars,
      intentVars, restVars>>

\* what each specification leaves alone
nonIngestVars ==
    <<retryVars, cacheVars, semVars, retrieveVars, recordVars, intentVars,
      restVars>>
nonRetryVars ==
    <<ingestVars, cacheVars, semVars, retrieveVars, recordVars, intentVars,
      restVars>>
nonCacheVars ==
    <<ingestVars, retryVars, semVars, retrieveVars, recordVars, intentVars,
      restVars>>
nonSemVars ==
    <<ingestVars, retryVars, cacheVars, retrieveVars, recordVars, intentVars,
      restVars>>
nonRetrieveVars ==
    <<ingestVars, retryVars, cacheVars, semVars, recordVars, intentVars,
      restVars>>
nonRecordVars ==
    <<ingestVars, retryVars, cacheVars, semVars, retrieveVars, intentVars,
      restVars>>
nonIntentVars ==
    <<ingestVars, retryVars, cacheVars, semVars, retrieveVars, recordVars,
      restVars>>
nonLearnVars ==
    <<ingestVars, retryVars, cacheVars, semVars, retrieveVars, recordVars,
      intentVars, boostVars, batchVars, metaVars, accessVars, loopVars,
      servedVars, keyedVars>>
nonBoostVars ==
    <<ingestVars, retryVars, cacheVars, semVars, retrieveVars, recordVars,
      intentVars, learnVars, batchVars, metaVars, accessVars, loopVars,
      servedVars, keyedVars>>
nonBatchVars ==
    <<ingestVars, retryVars, cacheVars, semVars, retrieveVars, recordVars,
      intentVars, learnVars, boostVars, metaVars, accessVars, loopVars,
      servedVars, keyedVars>>
nonMetaVars ==
    <<ingestVars, retryVars, cacheVars, semVars, retrieveVars, recordVars,
      intentVars, learnVars, boostVars, batchVars, accessVars, loopVars,
      servedVars, keyedVars>>
nonAccessVars ==
    <<ingestVars, retryVars, cacheVars, semVars, retrieveVars, recordVars,
      intentVars, learnVars, boostVars, batchVars, metaVars, loopVars,
      servedVars, keyedVars>>
nonLoopVars ==
    <<ingestVars, retryVars, cacheVars, semVars, retrieveVars, recordVars,
      intentVars, learnVars, boostVars, batchVars, metaVars, accessVars,
      servedVars, keyedVars>>
nonServedVars ==
    <<ingestVars, retryVars, cacheVars, semVars, retrieveVars, recordVars,
      intentVars, learnVars, boostVars, batchVars, metaVars, accessVars,
      loopVars, keyedVars>>
nonKeyedVars ==
    <<ingestVars, retryVars, cacheVars, semVars, retrieveVars, recordVars,
      intentVars, learnVars, boostVars, batchVars, metaVars, accessVars,
      loopVars, servedVars>>

NoCall ==
    [st |-> "idle", caller |-> "none", fault |-> "none", faults_left |-> 0,
     injected |-> 0, attempt |-> 0, attempts_made |-> 0, result |-> "none"]

RetryParked == call = NoCall

Keys == {"k1", "k2", "k3"}
Miss == "None"
NoEntry == [value |-> Miss, time |-> 0]

CacheParked ==
    /\ cache_kind = "metadata"
    /\ cache = <<>>
    /\ now = 0
    /\ pending = [k \in Keys |-> 0]
    /\ last_outcome = "none"
    /\ lru = <<>>
    /\ lastSet = [k \in Keys |-> NoEntry]

\* MAX_CONCURRENT_INGESTIONS, MAX_CONCURRENT_RETRIEVALS, MAX_PARALLEL_LLM_CALLS
\* (defaults of the environment variables of the same names)
MAX_CONCURRENT_INGESTIONS == 10
MAX_CONCURRENT_RETRIEVALS == 20
MAX_PARALLEL_LLM_CALLS == 20

\* where a request (or, in the metadata service, a chunk task) can be
Locations ==
    {"deleting", "waiting_ingest", "waiting_update", "inside_ingest",
     "inside_update", "waiting", "inside", "single_llm", "batch_waiting",
     "batch_llm"}

SemParked ==
    /\ proc = "ingestion"
    /\ sem = MAX_CONCURRENT_INGESTIONS
    /\ at = [l \in Locations |-> 0]

NoRetrieval ==
    [pc |-> "idle", enable_reranking |-> FALSE, enable_compression |-> FALSE,
     intent_detection |-> FALSE, stream |-> FALSE, optional |-> FALSE,
     response |-> "none",
     body |-> [success |-> FALSE, answer |-> "none", citations |-> 0,
               counts |-> <<0, 0, 0, 0>>]]

NoTask == [st |-> "none", reply |-> "none", result |-> "none"]

RetrieveParked ==
    /\ rq = NoRetrieval
    /\ intent_task = NoTask
    /\ intent_data = "none"
    /\ stages = <<>>

\* no vector: the None of dense_embedding / dense_vector
NoVector == [present |-> FALSE, from |-> 0, dim |-> "none"]

NoRun ==
    [pc |-> "idle", document_id |-> <<>>, chunks |-> <<>>,
     generate_metadata |-> FALSE, metadata_list |-> <<>>,
     storage_chunks |-> <<>>, status |-> "none"]

\* utility.has_collection(collection_name) is False
NoCollection ==
    [exists |-> FALSE, created_by |-> "none", dimension |-> "none",
     rows |-> {}]

\* no create request answered yet
NoReply == [status |-> 0, success |-> FALSE]

RecordsParked ==
    /\ run = NoRun
    /\ milvus = NoCollection
    /\ storage_reply = NoReply

NoAnalysis ==
    [pc |-> "idle", score |-> 0, pattern_intent |-> "None",
     pattern_confidence |-> 0]

IntentParked ==
    /\ analysis = NoAnalysis
    /\ verdict = [status |-> 0, detail |-> "none", intent |-> "none",
                  confidence |-> 0, route |-> "none", score |-> 0,
                  llm_intent |-> "none", llm_confidence |-> 0]
    /\ query_logs = [rejected |-> 0, low_confidence |-> 0]
    /\ learning_queue =
           [len |-> 0,
            last |-> [llm_intent |-> "none", pattern_intent |-> "none",
                      mismatch |-> FALSE]]

\* the pattern library as shipped: one intent with one pattern
ShippedLibrary ==
    [complete |-> TRUE, keys |-> {"comparison"},
     patterns |-> <<[intent |-> "comparison", regex |-> "versus",
                     confidence |-> 85]>>]

\* the learning queue, as the number of queued queries per llm_intent
EmptyQueue == [comparison |-> 0, small_talk |-> 0]

\* PatternLearner.__init__ with no queue file, and the two matchers loaded
\* from the shipped library
LearnParked ==
    /\ learner = [pc |-> "idle", queue |-> EmptyQueue, saved |-> EmptyQueue,
                  processing |-> FALSE, groups |-> {}, writing |-> <<>>,
                  waiting |-> FALSE, late |-> EmptyQueue, cycles |-> 0,
                  crashes |-> 0]
    /\ library = [file |-> ShippedLibrary,
                  matcher |-> ShippedLibrary.patterns,
                  matcher_v2 |-> ShippedLibrary.patterns]

\* no search request yet
BoostParked ==
    search = [pc |-> "idle", use_metadata_boost |-> FALSE,
              boost_weights |-> <<>>,
              hit |-> [score |-> 0, keywords |-> 0, topics |-> 0,
                       questions |-> 0, summary |-> 0],
              item |-> [score |-> 0, vector_score |-> 0,
                        metadata_boost |-> 0]]

\* no batch request yet
NoBatch ==
    [pc |-> "idle", results_data |-> <<>>, results |-> <<>>, successful |-> 0,
     failed |-> 0, status |-> 0]

BatchParked == batch = NoBatch

\* no extraction post-processed yet
NoMeta == [pc |-> "idle", entity_relationships |-> <<>>, out |-> <<>>]

MetaParked == meta = NoMeta

\* no request seen yet
NoAccess ==
    [pc |-> "idle", service |-> "none",
     client_host |-> [v6 |-> FALSE, octets |-> <<0, 0, 0, 0>>], status |-> 0]

AccessParked == access = NoAccess

\* an idle event loop: no request handler scheduled, the lock free
LoopParked ==
    loop = [kind |-> "metadata", running |-> 0, pc |-> <<>>, lock_depth |-> 0]

\* a dict of a cached response; "absent" stands for a key the dict lacks
NoDict ==
    [payload |-> "absent", tenant |-> "absent", cached |-> "absent",
     cache_age_seconds |-> "absent",
     metadata |-> [tenant |-> "absent", cached |-> "absent"]]

\* nothing stored and nothing served yet
ServedParked ==
    served = [kind |-> "metadata", stored |-> FALSE, entry |-> NoDict,
              original |-> NoDict, returned |-> NoDict, hits |-> 0]

\* a request nobody made and an answer nobody got
NoEmbeddingRequest == [texts |-> <<>>, model |-> "none", normalize |-> FALSE]
NoEmbeddingResponse == [embeddings_of |-> <<>>, model |-> "none", cached |-> FALSE]
NoMetadataRequest == [text |-> <<>>, model |-> "none", flavor |-> "none"]
NoMetadata == [extracted_from |-> <<>>, model |-> "none", flavor |-> "none", cached |-> FALSE]

\* empty caches, no request served
KeyedParked ==
    keyed = [service |-> "embeddings", pc |-> "idle",
             embeddings_cache |-> <<>>, metadata_cache |-> <<>>,
             embedding_request |-> NoEmbeddingRequest,
             embedding_response |-> NoEmbeddingResponse,
             metadata_request |-> NoMetadataRequest,
             metadata |-> NoMetadata]

RestParked ==
    LearnParked /\ BoostParked /\ BatchParked /\ MetaParked /\ AccessParked /\ LoopParked /\ ServedParked /\ KeyedParked

-----------------------------------------------------------------------------
(* Ingestion API -> Chunking Orchestrator -> Storage service               *)

NoTenant == "none"

NoRequest ==
    [pc |-> "idle", op |-> "none", document_id |-> "none",
     tenant_id |-> NoTenant, collection_name |-> "none", chunks |-> 0,
     old_chunks |-> 0]

\* chunk ids built by orchestrate_pipeline: f"{document_id}_chunk_{idx:04d}"
chunk_id(document_id, idx) == <<document_id, "chunk", idx>>

\* the storage chunk dicts orchestrate_pipeline builds, one per chunk index
storage_chunks(document_id, tenant_id, n) ==
    { [id |-> chunk_id(document_id, idx), document_id |-> document_id,
       chunk_index |-> idx, tenant_id |-> tenant_id] : idx \in 0..(n - 1) }

\* operations.insert_chunks: collection.insert(data) appends the entities;
\* it is an insert, not an upsert, and nothing is looked up before it
insert_chunks(colls, collection_name, chunks) ==
    [colls EXCEPT ![collection_name] = colls[collection_name] (+) SetToBag(chunks)]

\* the filter expression operations.delete_chunks hands to collection.delete:
\* 'document_id == "<id>"', and-ed with the tenant only when one is given
matches_filter(e, document_id, tenant_id) ==
    /\ e.document_id = document_id
    /\ (tenant_id # NoTenant => e.tenant_id = tenant_id)

delete_chunks(colls, collection_name, document_id, tenant_id) ==
    LET old == colls[collection_name]
        kept == {e \in DOMAIN old : ~matches_filter(e, document_id, tenant_id)}
    IN  [colls EXCEPT ![collection_name] = [e \in kept |-> old[e]]]

Finish(status) ==
    /\ response' = [status |-> status, op |-> req.op, stage |-> req.pc,
                    document_id |-> req.document_id,
                    tenant_id |-> req.tenant_id,
                    collection_name |-> req.collection_name]
    /\ req' = NoRequest
    /\ metadata_list' = <<>>
    /\ embeddings' = "not_issued"

\* POST /v1/ingest: the handler delegates to the Chunking Orchestrator
ingest_document(d, t, c, n) ==
    /\ req.pc = "idle"
    /\ BagCardinality(collections[c]) + n <= MaxEntities
    /\ req' = [pc |-> "chunking", op |-> "ingest", document_id |-> d,
               tenant_id |-> t, collection_name |-> c, chunks |-> n,
               old_chunks |-> 0]
    /\ UNCHANGED <<collections, created, metadata_list, embeddings, response>>
    /\ UNCHANGED nonIngestVars

\* the chunks stored in a collection for a document of a tenant
chunks_of(colls, c, d, t) ==
    {e \in BagToSet(colls[c]) : e.document_id = d /\ e.tenant_id = t}

\* PUT /v1/documents/{document_id}: step 1, delete the old chunks
\* (old_chunks notes how many chunks the tenant's document has when the
\* request arrives; the handler does not read them)
update_document(d, t, c, n) ==
    /\ req.pc = "idle"
    /\ BagCardinality(collections[c]) + n <= MaxEntities
    /\ req' = [pc |-> "update_delete", op |-> "update", document_id |-> d,
               tenant_id |-> t, collection_name |-> c, chunks |-> n,
               old_chunks |-> Cardinality(chunks_of(collections, c, d, t))]
    /\ UNCHANGED <<collections, created, metadata_list, embeddings, response>>
    /\ UNCHANGED nonIngestVars

\* call_storage_service_delete_document: the filter names the document only
call_storage_service_delete_document ==
    /\ req.pc \in {"update_delete", "delete"}
    /\ IF req.collection_name \in created
       THEN /\ collections' = delete_chunks(collections, req.collection_name,
                                            req.document_id, NoTenant)
            /\ IF req.op = "update"
               THEN /\ req' = [req EXCEPT !.pc = "chunking"]
                    /\ UNCHANGED <<metadata_list, embeddings, response>>
               ELSE Finish("success")
       ELSE \* "Collection not found": 400 from storage, 503 to the client
            /\ Finish("error")
            /\ UNCHANGED collections
    /\ UNCHANGED created
    /\ UNCHANGED nonIngestVars

\* DELETE /v1/documents/{document_id}
delete_document(d, c) ==
    /\ req.pc = "idle"
    /\ req' = [pc |-> "delete", op |-> "delete", document_id |-> d,
               tenant_id |-> NoTenant, collection_name |-> c, chunks |-> 0,
               old_chunks |-> 0]
    /\ UNCHANGED <<collections, created, metadata_list, embeddings, response>>
    /\ UNCHANGED nonIngestVars

\* orchestrate_pipeline step 1 and the start of step 2: perform_chunking,
\* then generate_metadata_parallel creates one task per chunk and gathers
perform_chunking ==
    /\ req.pc = "chunking"
    /\ IF req.chunks = 0
       THEN \* "Chunking produced no results"
            /\ Finish("error")
       ELSE /\ req' = [req EXCEPT !.pc = "metadata"]
            /\ metadata_list' = [i \in 1..req.chunks |-> "in_flight"]
            /\ UNCHANGED <<embeddings, response>>
    /\ UNCHANGED <<collections, created>>
    /\ UNCHANGED nonIngestVars

\* generate_metadata_for_chunk returns the metadata or None (any failure)
generate_metadata_for_chunk(i, ok) ==
    /\ req.pc = "metadata"
    /\ i \in DOMAIN metadata_list
    /\ metadata_list[i] = "in_flight"
    /\ metadata_list' = [metadata_list EXCEPT ![i] = IF ok THEN "ok" ELSE "none"]
    /\ UNCHANGED <<collections, created, req, embeddings, response>>
    /\ UNCHANGED nonIngestVars

\* orchestrate_pipeline step 3 begins only after the await of
\* generate_metadata_parallel has returned
metadata_gathered ==
    \A i \in DOMAIN metadata_list : metadata_list[i] # "in_flight"

issue_embeddings ==
    /\ req.pc = "metadata"
    /\ metadata_gathered
    /\ req' = [req EXCEPT !.pc = "embeddings"]
    /\ embeddings' = "in_flight"
    /\ UNCHANGED <<collections, created, metadata_list, response>>
    /\ UNCHANGED nonIngestVars

\* an orchestrator that went on to store the chunks without embeddings
generate_embeddings_batch_tolerant(ok) ==
    /\ req.pc = "embeddings"
    /\ embeddings = "in_flight"
    /\ req' = [req EXCEPT !.pc = "storage"]
    /\ embeddings' = IF ok THEN "ok" ELSE "none"
    /\ UNCHANGED <<metadata_list, response, collections, created>>
    /\ UNCHANGED nonIngestVars

\* generate_embeddings_batch returns the embeddings or (None, None);
\* "if not embeddings: raise HTTPException(500)"
generate_embeddings_batch(ok) ==
    /\ req.pc = "embeddings"
    /\ embeddings = "in_flight"
    /\ IF ok
       THEN /\ req' = [req EXCEPT !.pc = "storage"]
            /\ embeddings' = "ok"
            /\ UNCHANGED <<metadata_list, response>>
       ELSE Finish("error")
    /\ UNCHANGED <<collections, created>>
    /\ UNCHANGED nonIngestVars

\* orchestrate_pipeline steps 4 and 5: build the chunk dicts and store them
store_in_milvus_storage(ok) ==
    /\ req.pc = "storage"
    /\ IF ok
       THEN /\ collections' = insert_chunks(collections, req.collection_name,
                   storage_chunks(req.document_id, req.tenant_id, req.chunks))
            /\ created' = created \cup {req.collection_name}
            /\ Finish("success")
       ELSE /\ Finish("error")
            /\ UNCHANGED <<collections, created>>
    /\ UNCHANGED nonIngestVars

InitIngestVars ==
    /\ collections = [c \in Colls |-> EmptyBag]
    /\ created = {}
    /\ req = NoRequest
    /\ metadata_list = <<>>
    /\ embeddings = "not_issued"
    /\ response = [status |-> "none", op |-> "none", stage |-> "none",
                   document_id |-> "none", tenant_id |-> NoTenant,
                   collection_name |-> "none"]

InitIngest ==
    InitIngestVars /\ RetryParked /\ CacheParked /\ SemParked /\ RetrieveParked
    /\ RecordsParked /\ IntentParked /\ RestParked

NextIngest ==
    \/ \E d \in Docs, t \in Tenants, c \in Colls, n \in 0..MaxChunks :
          ingest_document(d, t, c, n)
    \/ \E d \in Docs, t \in Tenants, c \in Colls, n \in 0..MaxChunks :
          update_document(d, t, c, n)
    \/ \E d \in Docs, c \in Colls : delete_document(d, c)
    \/ call_storage_service_delete_document
    \/ perform_chunking
    \/ \E i \in 1..MaxChunks, ok \in BOOLEAN : generate_metadata_for_chunk(i, ok)
    \/ issue_embeddings
    \/ \E ok \in BOOLEAN : generate_embeddings_batch(ok)
    \/ \E ok \in BOOLEAN : store_in_milvus_storage(ok)

SpecIngest == InitIngest /\ [][NextIngest]_vars

(* C37: updating a document through the ingestion API on behalf of one     *)
(* tenant never removes chunks that belong to a different tenant, even     *)
(* when both tenants use the same document id in the same collection.      *)
C37_OtherTenantsChunksKept ==
    [][req.op = "update" =>
           \A c \in Colls : \A e \in BagToSet(collections[c]) :
               e.tenant_id # req.tenant_id =>
                   CopiesIn(e, collections'[c]) = CopiesIn(e, collections[c])]_vars

(* C38: a document update (PUT /v1/documents/{id}) is all-or-nothing: if   *)
(* the re-ingestion fails at any stage after the old chunks were deleted,  *)
(* the previously stored chunks of the document are still present; a       *)
(* failed update never leaves the document absent from the collection.     *)
C38_FailedUpdateKeepsDocument ==
    [][(/\ req.op = "update"
        /\ req.old_chunks > 0
        /\ response'.status = "error"
        /\ req' = NoRequest) =>
           Cardinality(chunks_of(collections', req.collection_name,
                                 req.document_id, req.tenant_id))
               >= req.old_chunks]_vars

-----------------------------------------------------------------------------
(* C1: after any sequence of ingest, update and delete operations, no two  *)
(* chunks stored for the same tenant in a collection have the same         *)
(* (document_id, chunk_index).                                             *)
C1_ChunkKeyUnique ==
    \A c \in Colls : \A e \in BagToSet(collections[c]) :
        /\ CopiesIn(e, collections[c]) = 1
        /\ \A f \in BagToSet(collections[c]) :
              (f.tenant_id = e.tenant_id /\ f.document_id = e.document_id
                 /\ f.chunk_index = e.chunk_index) => f = e

(* C9: during ingestion the metadata fan-out and the embedding fan-out run *)
(* concurrently: once the document is chunked, the embedding request can   *)
(* be issued while metadata tasks are still in flight, it does not wait    *)
(* for the metadata extraction to complete.                                *)
C9_EmbeddingsIssuedWithoutWaiting ==
    (req.pc = "metadata" /\ embeddings = "not_issued") => ENABLED issue_embeddings

(* C11: if embedding generation fails for a document, the ingestion        *)
(* request fails and no chunk of the document is inserted: the step in     *)
(* which the embeddings call ends without embeddings ends the request with *)
(* an error and leaves the store as it was, and chunks are only ever       *)
(* inserted by a request whose embeddings were generated.                  *)
C11_EmbeddingFailureFailsIngestion ==
    [][/\ (req.pc = "embeddings" /\ embeddings' # "ok") =>
              /\ response'.status = "error"
              /\ req' = NoRequest
              /\ collections' = collections
       /\ (\E c \in Colls : BagCardinality(collections'[c])
                               > BagCardinality(collections[c]))
              => embeddings = "ok"]_vars

\* an ingestion failed at the embeddings stage; the collection holds chunks
\* of another document and none of the document of the failed request
C11_FailedAtEmbeddingsNothingStored ==
    /\ response.status = "error"
    /\ response.stage = "embeddings"
    /\ response.op = "ingest"
    /\ collections[response.collection_name] # EmptyBag
    /\ \A e \in DOMAIN collections[response.collection_name] :
          e.document_id # response.document_id

-----------------------------------------------------------------------------
(* Downstream calls and the retry discipline of each caller                *)

\* MAX_RETRIES of the four services that loop over attempts
INGESTION_MAX_RETRIES == 3
RETRIEVAL_MAX_RETRIES == 3
METADATA_MAX_RETRIES == 3
COMPRESSION_MAX_RETRIES == 2

\* largest number of consecutive failures the downstream service injects
MaxFaults == 3

\* failures of one attempt, as the caller sees them: an httpx timeout, a
\* connection error, a 5xx status, a 429 status, another 4xx status
Faults == {"timeout", "connect", "5xx", "429", "4xx"}
TransientFaults == {"timeout", "connect", "5xx"}

\* Retrieval API callers, all through retry_with_exponential_backoff
RetrievalCallers ==
    {"call_intent_service", "call_search_service", "call_rerank_service",
     "call_compression_service", "call_answer_service"}

\* Ingestion API and Chunking Orchestrator callers on the live ingest,
\* update and delete paths: each is a single http_client.post
IngestionCallers ==
    {"call_chunking_service", "call_storage_service_delete_document",
     "generate_metadata_for_chunk_call", "generate_embeddings_batch_call",
     "store_in_milvus_storage_call"}

\* LLM callers with their own attempt loop
LlmCallers == {"call_llm_gateway", "batch_compress_chunks"}

Callers == RetrievalCallers \cup IngestionCallers \cup LlmCallers

\* retry_with_exponential_backoff: what the helper does with the outcome
\* of attempt number `attempt` (0-based): "return", "retry" or "raise"
retry_with_exponential_backoff(max_retries, attempt, outcome) ==
    IF outcome = "ok" THEN "return"
    ELSE IF outcome \in {"timeout", "connect"}
         THEN (IF attempt < max_retries - 1 THEN "retry" ELSE "raise")
         ELSE \* httpx.HTTPStatusError
              IF outcome = "4xx" THEN "raise"
              ELSE IF attempt < max_retries - 1 THEN "retry" ELSE "raise"

\* call_chunking_service and the other single posts: no loop at all
single_post(outcome) ==
    IF outcome = "ok" THEN "return" ELSE "raise"

\* call_llm_gateway: "if status == 200: return ... else: last_error = ..."
\* and every exception only records last_error; the loop goes on
call_llm_gateway_loop(attempt, outcome) ==
    IF outcome = "ok" THEN "return"
    ELSE IF attempt < METADATA_MAX_RETRIES - 1 THEN "retry" ELSE "raise"

\* batch_compress_chunks: the same loop; after it, the fallback summaries
batch_compress_chunks_loop(attempt, outcome) ==
    IF outcome = "ok" THEN "return"
    ELSE IF attempt < COMPRESSION_MAX_RETRIES - 1 THEN "retry" ELSE "fallback"

\* what the caller hands back when its attempts end without a response
result_on_failure(caller) ==
    CASE caller = "call_intent_service" -> "fallback"  \* default intent dict
      [] caller = "generate_metadata_for_chunk_call" -> "none"  \* returns None
      [] caller = "generate_embeddings_batch_call" -> "error"   \* (None, None) -> 500
      [] caller = "batch_compress_chunks" -> "fallback"
      [] OTHER -> "error"                                       \* HTTPException

\* the downstream service fails `faults_left` more times, then succeeds
attempt_outcome == IF call.faults_left > 0 THEN call.fault ELSE "ok"

decision(caller, attempt, outcome) ==
    CASE caller \in RetrievalCallers ->
            retry_with_exponential_backoff(RETRIEVAL_MAX_RETRIES, attempt, outcome)
      [] caller \in IngestionCallers -> single_post(outcome)
      [] caller = "call_llm_gateway" -> call_llm_gateway_loop(attempt, outcome)
      [] caller = "batch_compress_chunks" -> batch_compress_chunks_loop(attempt, outcome)

\* a caller starts a call against a service that will fail n times
start_call(caller, fault, n) ==
    /\ call.st = "idle"
    /\ call' = [st |-> "attempting", caller |-> caller, fault |-> fault,
                faults_left |-> n, injected |-> n, attempt |-> 0,
                attempts_made |-> 0, result |-> "none"]
    /\ UNCHANGED nonRetryVars

\* the response (or exception) of the attempt in flight reaches the caller
attempt_returns(callers) ==
    /\ call.st = "attempting"
    /\ call.caller \in callers
    /\ LET outcome == attempt_outcome
           what == decision(call.caller, call.attempt, outcome)
           made == call.attempts_made + 1
           left == IF call.faults_left > 0 THEN call.faults_left - 1 ELSE 0
       IN  call' =
             CASE what = "return" ->
                    [call EXCEPT !.st = "done", !.result = "success",
                                 !.attempts_made = made, !.faults_left = left]
               [] what = "retry" ->
                    [call EXCEPT !.st = "sleeping", !.attempts_made = made,
                                 !.faults_left = left]
               [] OTHER ->
                    [call EXCEPT !.st = "done",
                                 !.result = result_on_failure(call.caller),
                                 !.attempts_made = made, !.faults_left = left]
    /\ UNCHANGED nonRetryVars

retrieval_attempt_returns == attempt_returns(RetrievalCallers)
ingestion_attempt_returns == attempt_returns(IngestionCallers)
llm_attempt_returns == attempt_returns(LlmCallers)

\* asyncio.sleep / time.sleep of the backoff ends: the next attempt starts
backoff_elapsed ==
    /\ call.st = "sleeping"
    /\ call' = [call EXCEPT !.st = "attempting", !.attempt = call.attempt + 1]
    /\ UNCHANGED nonRetryVars

\* the caller has its result; the next call may start
call_finished ==
    /\ call.st = "done"
    /\ call' = NoCall
    /\ UNCHANGED nonRetryVars

InitRetry ==
    InitIngestVars /\ call = NoCall /\ CacheParked /\ SemParked /\ RetrieveParked
    /\ RecordsParked /\ IntentParked /\ RestParked

NextRetry ==
    \/ \E caller \in Callers, fault \in Faults, n \in 0..MaxFaults :
          start_call(caller, fault, n)
    \/ retrieval_attempt_returns
    \/ ingestion_attempt_returns
    \/ llm_attempt_returns
    \/ backoff_elapsed
    \/ call_finished

SpecRetry == InitRetry /\ [][NextRetry]_vars

OrchestratorCallers == RetrievalCallers \cup IngestionCallers

(* C2: a downstream service that fails with a transient error (timeout,    *)
(* connection error or 5xx) N < MAX_RETRIES consecutive times and then     *)
(* succeeds does not fail any call of the ingestion and retrieval          *)
(* orchestrators: every such call ends with the successful response.       *)
C2_RetryConvergence ==
    (/\ call.st = "done"
     /\ call.caller \in OrchestratorCallers
     /\ call.fault \in TransientFaults
     /\ call.injected < RETRIEVAL_MAX_RETRIES
     /\ call.injected < INGESTION_MAX_RETRIES)
    => call.result = "success"

(* C3: a downstream response with a 4xx status other than 429 is never     *)
(* retried: the caller makes exactly one attempt, never backs off for a    *)
(* second one, and ends with the failure (never with a later success).     *)
C3_ClientErrorNotRetried ==
    (call.fault = "4xx" /\ call.injected > 0)
    => /\ call.attempts_made <= 1
       /\ call.st # "sleeping"
       /\ (call.st = "done" => call.attempts_made = 1 /\ call.result # "success")

-----------------------------------------------------------------------------
(* The in-process caches: MetadataCache (metadata service), ResponseCache  *)
(* (LLM gateway) and EmbeddingsCache (embeddings service)                  *)

\* max_size and ttl of the modelled cache, scaled down from the defaults
\* (5000 / 1000 / 10000 entries, 3600 / 3600 / 7200 seconds)
MaxSize == 2
Ttl == 1

\* the clock stops here
MaxTime == 2

\* the request handlers that run concurrently in the service process
Handlers == {"h1", "h2"}

CacheKinds == {"metadata", "llm", "embeddings"}

\* payloads a successful downstream call (LLM, provider) can produce
Values == {"v1", "v2"}

KeysOf(c) == {c[i].key : i \in DOMAIN c}
EntryOf(c, k) == c[CHOOSE i \in DOMAIN c : c[i].key = k]
Without(c, k) == SelectSeq(c, LAMBDA e : e.key # k)
Replaced(c, e) == [i \in DOMAIN c |-> IF c[i].key = e.key THEN e ELSE c[i]]

\* a cache whose entries expire as soon as their age reaches the TTL
is_expired_at_ttl(timestamp, t) == t - timestamp >= Ttl

\* "time.time() - entry.timestamp > self.ttl" (the three get methods)
is_expired(timestamp, t) == t - timestamp > Ttl

\* min(self.cache.keys(), key=lambda k: self.cache[k].timestamp): the first
\* key, in dict order, whose timestamp is the smallest
oldest_key(c) ==
    LET i == CHOOSE i \in DOMAIN c :
                 /\ \A j \in DOMAIN c : c[i].timestamp <= c[j].timestamp
                 /\ \A j \in 1..(i - 1) : c[j].timestamp > c[i].timestamp
    IN  c[i].key

\* MetadataCache.get: expired -> del, miss; else move_to_end, mark the
\* stored dict cached=True and return it
MetadataCache_get(c, k, t) ==
    IF k \notin KeysOf(c) THEN [cache |-> c, result |-> Miss]
    ELSE LET e == EntryOf(c, k) IN
         IF is_expired(e.timestamp, t)
         THEN [cache |-> Without(c, k), result |-> Miss]
         ELSE [cache |-> Append(Without(c, k), [e EXCEPT !.cached = TRUE]),
               result |-> e.value]

\* ResponseCache.get: expired -> del, miss; else a copy of the response
\* with cached=True; neither the order nor the timestamp is touched
ResponseCache_get(c, k, t) ==
    IF k \notin KeysOf(c) THEN [cache |-> c, result |-> Miss]
    ELSE LET e == EntryOf(c, k) IN
         IF is_expired(e.timestamp, t)
         THEN [cache |-> Without(c, k), result |-> Miss]
         ELSE [cache |-> c, result |-> e.value]

\* EmbeddingsCache.get: expired -> del, miss; else move_to_end and a copy
EmbeddingsCache_get(c, k, t) ==
    IF k \notin KeysOf(c) THEN [cache |-> c, result |-> Miss]
    ELSE LET e == EntryOf(c, k) IN
         IF is_expired(e.timestamp, t)
         THEN [cache |-> Without(c, k), result |-> Miss]
         ELSE [cache |-> Append(Without(c, k), e), result |-> e.value]

NewEntry(k, v, t) == [key |-> k, value |-> v, timestamp |-> t, cached |-> FALSE]

\* MetadataCache.set: at capacity popitem(last=False), whether or not the
\* key is present; then store a copy and move_to_end
MetadataCache_set(c, k, v, t) ==
    LET c1 == IF Len(c) >= MaxSize THEN Tail(c) ELSE c
    IN  Append(Without(c1, k), NewEntry(k, v, t))

\* ResponseCache.set: at capacity delete the entry with the oldest
\* timestamp; then assign (an existing key keeps its place in the dict)
ResponseCache_set(c, k, v, t) ==
    LET c1 == IF Len(c) >= MaxSize THEN Without(c, oldest_key(c)) ELSE c
    IN  IF k \in KeysOf(c1) THEN Replaced(c1, NewEntry(k, v, t))
        ELSE Append(c1, NewEntry(k, v, t))

\* EmbeddingsCache.set: at capacity and for a new key popitem(last=False);
\* then assign (an existing key keeps its place, there is no move_to_end)
EmbeddingsCache_set(c, k, v, t) ==
    LET c1 == IF Len(c) >= MaxSize /\ k \notin KeysOf(c) THEN Tail(c) ELSE c
    IN  IF k \in KeysOf(c1) THEN Replaced(c1, NewEntry(k, v, t))
        ELSE Append(c1, NewEntry(k, v, t))

cache_get(kind, c, k, t) ==
    CASE kind = "metadata" -> MetadataCache_get(c, k, t)
      [] kind = "llm" -> ResponseCache_get(c, k, t)
      [] kind = "embeddings" -> EmbeddingsCache_get(c, k, t)

cache_set(kind, c, k, v, t) ==
    CASE kind = "metadata" -> MetadataCache_set(c, k, v, t)
      [] kind = "llm" -> ResponseCache_set(c, k, v, t)
      [] kind = "embeddings" -> EmbeddingsCache_set(c, k, v, t)

\* history: `order` with k moved to the most-recent end, resident keys only
Touched(order, k, resident) ==
    SelectSeq(Append(SelectSeq(order, LAMBDA x : x # k), k),
              LAMBDA x : x \in resident)

Kept(order, resident) == SelectSeq(order, LAMBDA x : x \in resident)

\* history: what the last set of each resident key stored, and when
Recorded(last, resident) ==
    [j \in Keys |-> IF j \in resident THEN last[j] ELSE NoEntry]

\* handlers that missed and have not yet heard from their downstream call
Inflight == pending["k1"] + pending["k2"] + pending["k3"]

\* a handler that wrote the cache on every outcome of the downstream call
value_to_cache_on_any_outcome(outcome, v) ==
    IF outcome = "ok" THEN v ELSE "error"

\* extract_metadata, chat_completions, create_dense_embeddings: cache.set is
\* the last statement before the return and is reached only when neither
\* the downstream call nor the post-processing raised; Miss: nothing stored
value_to_cache(outcome, v) ==
    IF outcome = "ok" THEN v ELSE Miss

clock_tick ==
    /\ now < MaxTime
    /\ now' = now + 1
    /\ UNCHANGED <<cache_kind, cache, pending, last_outcome, lru, lastSet>>
    /\ UNCHANGED nonCacheVars

\* a request for key k enters the handler, which asks the cache first: a
\* hit is returned at once; on a miss the handler makes the downstream call
handler_get(k) ==
    /\ Inflight < Cardinality(Handlers)
    /\ LET r == cache_get(cache_kind, cache, k, now) IN
         /\ cache' = r.cache
         /\ pending' = IF r.result = Miss
                       THEN [pending EXCEPT ![k] = @ + 1] ELSE pending
         /\ lru' = IF r.result = Miss THEN Kept(lru, KeysOf(r.cache))
                   ELSE Touched(lru, k, KeysOf(r.cache))
         /\ lastSet' = Recorded(lastSet, KeysOf(r.cache))
    /\ UNCHANGED <<cache_kind, now, last_outcome>>
    /\ UNCHANGED nonCacheVars

\* the downstream call of a handler that missed on k ends: with a payload v,
\* with an error, or with content the post-processing rejects
downstream_returns(k, outcome, v) ==
    /\ pending[k] > 0
    /\ pending' = [pending EXCEPT ![k] = @ - 1]
    /\ last_outcome' = IF outcome = "ok" THEN "ok" ELSE "failed"
    /\ LET w == value_to_cache(outcome, v) IN
         IF w # Miss
         THEN LET c2 == cache_set(cache_kind, cache, k, w, now) IN
              /\ cache' = c2
              /\ lru' = Touched(lru, k, KeysOf(c2))
              /\ lastSet' = Recorded([lastSet EXCEPT
                                ![k] = [value |-> w, time |-> now]], KeysOf(c2))
         ELSE UNCHANGED <<cache, lru, lastSet>>
    /\ UNCHANGED <<cache_kind, now>>
    /\ UNCHANGED nonCacheVars

InitCache ==
    /\ InitIngestVars /\ RetryParked /\ SemParked /\ RetrieveParked
    /\ RecordsParked /\ IntentParked /\ RestParked
    /\ cache_kind \in CacheKinds
    /\ cache = <<>>
    /\ now = 0
    /\ pending = [k \in Keys |-> 0]
    /\ last_outcome = "none"
    /\ lru = <<>>
    /\ lastSet = [k \in Keys |-> NoEntry]

NextCache ==
    \/ clock_tick
    \/ \E k \in Keys : handler_get(k)
    \/ \E k \in Keys, outcome \in {"ok", "error", "bad_content"}, v \in Values :
          downstream_returns(k, outcome, v)

SpecCache == InitCache /\ [][NextCache]_vars

\* what cache.get(k) returns when it is called in the current state
GetNow(k) == cache_get(cache_kind, cache, k, now).result

C6_EvictsLeastRecentlyUsed ==
    [][\A e \in Keys :
         (/\ \E k \in Keys : pending'[k] < pending[k]
          /\ e \in KeysOf(cache) /\ e \notin KeysOf(cache'))
            => e = Head(lru)]_vars

-----------------------------------------------------------------------------
(* The semaphores: ingestion_semaphore (Ingestion API), retrieval_semaphore *)
(* (Retrieval API) and llm_semaphore (metadata service). Requests are       *)
(* counted per code location; a process holds at most MaxClients of them.   *)

MaxClients == 22

Processes == {"ingestion", "retrieval", "metadata"}

\* asyncio.Semaphore(MAX_...) created in the lifespan of each process
semaphore_size(p) ==
    CASE p = "ingestion" -> MAX_CONCURRENT_INGESTIONS
      [] p = "retrieval" -> MAX_CONCURRENT_RETRIEVALS
      [] p = "metadata" -> MAX_PARALLEL_LLM_CALLS

\* requests and chunk tasks present in the process
Present ==
    at["deleting"] + at["waiting_ingest"] + at["waiting_update"]
    + at["inside_ingest"] + at["inside_update"] + at["waiting"] + at["inside"]
    + at["single_llm"] + at["batch_waiting"] + at["batch_llm"]

Arrive(l, n) == [at EXCEPT ![l] = @ + n]
Leave(l) == [at EXCEPT ![l] = @ - 1]
Move(from, to) == [at EXCEPT ![from] = @ - 1, ![to] = @ + 1]

\* where the body of ingest_document runs for each entry path
WaitingOf(path) == IF path = "update" THEN "waiting_update" ELSE "waiting_ingest"
InsideOf(path) == IF path = "update" THEN "inside_update" ELSE "inside_ingest"

\* an update handler that ran the pipeline without going through the semaphore
update_reingests_inside_pipeline == "inside_update"

\* update_document, step 2: `await ingest_document(ingest_request)`, the
\* endpoint function itself, whose first statement is the `async with`
update_reingests_at == "waiting_update"

\* POST /v1/ingest: the handler reaches `async with ingestion_semaphore`
ingest_arrives ==
    /\ proc = "ingestion"
    /\ Present < MaxClients
    /\ at' = Arrive("waiting_ingest", 1)
    /\ UNCHANGED <<proc, sem>>
    /\ UNCHANGED nonSemVars

\* PUT /v1/documents/{id}: the handler first awaits the delete call, which
\* is made outside the semaphore
update_arrives ==
    /\ proc = "ingestion"
    /\ Present < MaxClients
    /\ at' = Arrive("deleting", 1)
    /\ UNCHANGED <<proc, sem>>
    /\ UNCHANGED nonSemVars

\* the delete call of an update returns: on success the handler goes on to
\* ingest_document, on failure the HTTPException ends the request
update_delete_returns(ok) ==
    /\ at["deleting"] > 0
    /\ at' = IF ok THEN Move("deleting", update_reingests_at)
             ELSE Leave("deleting")
    /\ UNCHANGED <<proc, sem>>
    /\ UNCHANGED nonSemVars

\* Semaphore.acquire in ingest_document: needs a permit, takes it
ingestion_semaphore_acquire(path) ==
    /\ at[WaitingOf(path)] > 0
    /\ sem > 0
    /\ sem' = sem - 1
    /\ at' = Move(WaitingOf(path), InsideOf(path))
    /\ UNCHANGED proc
    /\ UNCHANGED nonSemVars

\* the body of ingest_document ends, by return or by exception: the
\* `async with` releases the permit
ingest_document_returns(path) ==
    /\ at[InsideOf(path)] > 0
    /\ sem' = sem + 1
    /\ at' = Leave(InsideOf(path))
    /\ UNCHANGED proc
    /\ UNCHANGED nonSemVars

\* POST /v1/retrieve: the handler reaches `async with retrieval_semaphore`
retrieve_arrives ==
    /\ proc = "retrieval"
    /\ Present < MaxClients
    /\ at' = Arrive("waiting", 1)
    /\ UNCHANGED <<proc, sem>>
    /\ UNCHANGED nonSemVars

retrieval_semaphore_acquire ==
    /\ at["waiting"] > 0
    /\ sem > 0
    /\ sem' = sem - 1
    /\ at' = Move("waiting", "inside")
    /\ UNCHANGED proc
    /\ UNCHANGED nonSemVars

\* retrieve returns (a response, the no-results response, or an exception)
retrieve_returns ==
    /\ at["inside"] > 0
    /\ sem' = sem + 1
    /\ at' = Leave("inside")
    /\ UNCHANGED proc
    /\ UNCHANGED nonSemVars

\* POST /v1/metadata (the endpoint the Chunking Orchestrator posts every
\* chunk to): extract_metadata is awaited directly and, on a cache miss,
\* calls the LLM gateway
extract_metadata_endpoint ==
    /\ proc = "metadata"
    /\ Present < MaxClients
    /\ at' = Arrive("single_llm", 1)
    /\ UNCHANGED <<proc, sem>>
    /\ UNCHANGED nonSemVars

\* POST /v1/metadata/batch with n chunks: one extract_metadata_with_semaphore
\* task per chunk, gathered
extract_metadata_batch(n) ==
    /\ proc = "metadata"
    /\ Present + n <= MaxClients
    /\ at' = Arrive("batch_waiting", n)
    /\ UNCHANGED <<proc, sem>>
    /\ UNCHANGED nonSemVars

\* extract_metadata_with_semaphore: `async with llm_semaphore`, then the call
extract_metadata_with_semaphore ==
    /\ at["batch_waiting"] > 0
    /\ sem > 0
    /\ sem' = sem - 1
    /\ at' = Move("batch_waiting", "batch_llm")
    /\ UNCHANGED proc
    /\ UNCHANGED nonSemVars

\* call_llm_gateway returns or raises; a batch task releases its permit
call_llm_gateway_returns(l) ==
    /\ l \in {"single_llm", "batch_llm"}
    /\ at[l] > 0
    /\ sem' = IF l = "batch_llm" THEN sem + 1 ELSE sem
    /\ at' = Leave(l)
    /\ UNCHANGED proc
    /\ UNCHANGED nonSemVars

InitSem ==
    /\ InitIngestVars /\ RetryParked /\ CacheParked /\ RetrieveParked
    /\ RecordsParked /\ IntentParked /\ RestParked
    /\ proc \in Processes
    /\ sem = semaphore_size(proc)
    /\ at = [l \in Locations |-> 0]

NextSem ==
    \/ ingest_arrives
    \/ update_arrives
    \/ \E ok \in BOOLEAN : update_delete_returns(ok)
    \/ \E path \in {"ingest", "update"} : ingestion_semaphore_acquire(path)
    \/ \E path \in {"ingest", "update"} : ingest_document_returns(path)
    \/ retrieve_arrives
    \/ retrieval_semaphore_acquire
    \/ retrieve_returns
    \/ extract_metadata_endpoint
    \/ \E n \in 1..MaxChunks : extract_metadata_batch(n)
    \/ extract_metadata_with_semaphore
    \/ \E l \in {"single_llm", "batch_llm"} : call_llm_gateway_returns(l)

SpecSem == InitSem /\ [][NextSem]_vars

(* C7: in each orchestrator process the number of requests that are inside *)
(* the pipeline at the same time never exceeds the size of the semaphore   *)
(* (10 for ingestion, 20 for retrieval), whichever endpoint they came in   *)
(* by, document update included.                                           *)
C7_PipelineBounded ==
    /\ proc = "ingestion" =>
          at["inside_ingest"] + at["inside_update"] <= MAX_CONCURRENT_INGESTIONS
    /\ proc = "retrieval" => at["inside"] <= MAX_CONCURRENT_RETRIEVALS

\* the ingestion pipeline is full, some of the requests inside came in by
\* update, and a further update that has done its delete is held back
C7_FullPipelineHoldsUpdateBack ==
    /\ proc = "ingestion"
    /\ at["inside_ingest"] + at["inside_update"] = MAX_CONCURRENT_INGESTIONS
    /\ at["inside_update"] > 0
    /\ at["waiting_update"] > 0

(* C8: the LLM calls the metadata service has in flight at the same time,  *)
(* over all its endpoints and all concurrent requests, never exceed        *)
(* MAX_PARALLEL_LLM_CALLS (20).                                            *)
C8_LlmCallsBounded ==
    proc = "metadata" =>
        at["single_llm"] + at["batch_llm"] <= MAX_PARALLEL_LLM_CALLS

-----------------------------------------------------------------------------
(* One retrieval request: retrieve (Retrieval API), the asyncio task it     *)
(* creates for call_intent_service, and the stages it awaits in turn        *)

SearchOutcomes == {"results", "empty", "error"}
IntentResults == {"intent", "fallback"}
\* what POST /analyze of the intent service answers: 200 with the
\* classification, 400 (the query is rejected), or nothing usable (5xx,
\* timeouts and connection errors after the retries)
IntentReplies == {"classified", "rejected", "unavailable"}

\* a handler that did not start intent detection before the search
intent_task_left_uncreated(enabled) == NoTask

\* "intent_task = None; if ENABLE_INTENT_DETECTION: intent_task =
\* asyncio.create_task(call_intent_service(...))": the task is scheduled and
\* starts to run at the next suspension of the handler
created_intent_task(enabled) ==
    IF enabled
    THEN [st |-> "scheduled", reply |-> "none", result |-> "none"]
    ELSE NoTask

\* the stage the handler awaits next
after_compression(task) == IF task.st # "none" THEN "await_intent" ELSE "answer"
after_rerank(r, task) ==
    IF r.enable_compression THEN "compress" ELSE after_compression(task)
after_search(r, task) ==
    IF r.enable_reranking THEN "rerank" ELSE after_rerank(r, task)

Completed(stage) == \E i \in DOMAIN stages : stages[i] = stage

\* HTTPException out of a call_*_service: the handler re-raises it
Failed(r) == [r EXCEPT !.pc = "done", !.response = "error"]

\* POST /v1/retrieve, from the top of the handler to `await
\* call_search_service(...)`; rerank = ENABLE_RERANKING and
\* request.enable_reranking, compress likewise, intent = ENABLE_INTENT_DETECTION;
\* optional: the request says that its rerank and compression stages are
\* optional, in a field RetrievalRequest does not define and the handler
\* does not read
retrieve(rerank, compress, intent, stream, optional) ==
    /\ rq.pc = "idle"
    /\ rq' = [NoRetrieval EXCEPT
                 !.pc = "search", !.enable_reranking = rerank,
                 !.enable_compression = compress,
                 !.intent_detection = intent, !.stream = stream,
                 !.optional = optional]
    /\ intent_task' = created_intent_task(intent)
    /\ intent_data' = "none"
    /\ stages' = <<>>
    /\ UNCHANGED nonRetrieveVars

\* the event loop runs the intent task once the handler is suspended: the
\* request to the intent service goes out
intent_task_runs ==
    /\ intent_task.st = "scheduled"
    /\ rq.pc # "idle"
    /\ intent_task' = [intent_task EXCEPT !.st = "running"]
    /\ UNCHANGED <<rq, intent_data, stages>>
    /\ UNCHANGED nonRetrieveVars

\* call_intent_service: response.json() of a 200; raise_for_status turns
\* any 4xx or 5xx into an httpx.HTTPError, which "except httpx.HTTPError"
\* answers with the fallback dict, as it does a transport error
call_intent_service(reply) ==
    IF reply = "classified" THEN "intent" ELSE "fallback"

\* call_intent_service returns the intent, or its fallback dict when the
\* service failed; it does not raise
call_intent_service_returns(reply) ==
    /\ intent_task.st = "running"
    /\ intent_task' = [st |-> "finished", reply |-> reply,
                       result |-> call_intent_service(reply)]
    /\ UNCHANGED <<rq, intent_data, stages>>
    /\ UNCHANGED nonRetrieveVars

\* a handler that goes on to the next stage with an empty result list
call_search_service_returns_and_goes_on(outcome) ==
    /\ rq.pc = "search"
    /\ CASE outcome \in {"results", "empty"} ->
              /\ rq' = [rq EXCEPT !.pc = after_search(rq, intent_task)]
              /\ stages' = Append(stages, "search")
         [] outcome = "error" ->
              /\ rq' = Failed(rq)
              /\ UNCHANGED stages
    /\ UNCHANGED <<intent_task, intent_data>>
    /\ UNCHANGED nonRetrieveVars

\* `await call_search_service` ends: results, no results (the early return
\* of the "couldn't find" RetrievalResponse: success=False, no citations,
\* the four counts 0), or HTTPException 503
call_search_service_returns(outcome) ==
    /\ rq.pc = "search"
    /\ CASE outcome = "results" ->
              /\ rq' = [rq EXCEPT !.pc = after_search(rq, intent_task)]
              /\ stages' = Append(stages, "search")
         [] outcome = "empty" ->
              /\ rq' = [rq EXCEPT
                           !.pc = "done", !.response = "no_results",
                           !.body = [success |-> FALSE, answer |-> "apology",
                                     citations |-> 0,
                                     counts |-> <<0, 0, 0, 0>>]]
              /\ stages' = Append(stages, "search")
         [] outcome = "error" ->
              /\ rq' = Failed(rq)
              /\ UNCHANGED stages
    /\ UNCHANGED <<intent_task, intent_data>>
    /\ UNCHANGED nonRetrieveVars

call_rerank_service_returns(ok) ==
    /\ rq.pc = "rerank"
    /\ IF ok
       THEN /\ rq' = [rq EXCEPT !.pc = after_rerank(rq, intent_task)]
            /\ stages' = Append(stages, "reranking")
       ELSE /\ rq' = Failed(rq)
            /\ UNCHANGED stages
    /\ UNCHANGED <<intent_task, intent_data>>
    /\ UNCHANGED nonRetrieveVars

call_compression_service_returns(ok) ==
    /\ rq.pc = "compress"
    /\ IF ok
       THEN /\ rq' = [rq EXCEPT !.pc = after_compression(intent_task)]
            /\ stages' = Append(stages, "compression")
       ELSE /\ rq' = Failed(rq)
            /\ UNCHANGED stages
    /\ UNCHANGED <<intent_task, intent_data>>
    /\ UNCHANGED nonRetrieveVars

\* "intent_data = await intent_task", first statement of the answer stage:
\* the handler goes on when the task has finished
await_intent_task ==
    /\ rq.pc = "await_intent"
    /\ intent_task.st = "finished"
    /\ intent_data' = intent_task.result
    /\ rq' = [rq EXCEPT !.pc = "answer"]
    /\ stages' = Append(stages, "intent_detection")
    /\ UNCHANGED intent_task
    /\ UNCHANGED nonRetrieveVars

\* `await call_answer_service` ends: the StreamingResponse over the bytes of
\* the answer when request.stream, else the RetrievalResponse
call_answer_service_returns(ok) ==
    /\ rq.pc = "answer"
    /\ IF ok
       THEN /\ rq' = IF rq.stream
                     THEN [rq EXCEPT !.pc = "done", !.response = "stream"]
                     ELSE [rq EXCEPT
                              !.pc = "done", !.response = "answer",
                              !.body = [success |-> TRUE,
                                        answer |-> "generated",
                                        citations |-> 0,
                                        counts |-> <<1, 1, 1, 1>>]]
            /\ stages' = Append(stages, "answer_generation")
       ELSE /\ rq' = Failed(rq)
            /\ UNCHANGED stages
    /\ UNCHANGED <<intent_task, intent_data>>
    /\ UNCHANGED nonRetrieveVars

\* the task that runs the handler is cancelled while the handler is
\* suspended: CancelledError is raised at its await and takes the call it
\* awaits with it; a task is cancelled with the handler only when it is
\* the thing awaited ("await intent_task"), no other statement of retrieve
\* cancels intent_task
retrieve_cancelled ==
    /\ rq.pc \in {"search", "rerank", "compress", "await_intent", "answer"}
    /\ rq' = [rq EXCEPT !.pc = "done", !.response = "cancelled"]
    /\ intent_task' =
           IF rq.pc = "await_intent"
              /\ intent_task.st \in {"scheduled", "running"}
           THEN [intent_task EXCEPT !.st = "cancelled"]
           ELSE intent_task
    /\ UNCHANGED <<intent_data, stages>>
    /\ UNCHANGED nonRetrieveVars

InitRetrieve ==
    InitIngestVars /\ RetryParked /\ CacheParked /\ SemParked /\ RetrieveParked
    /\ RecordsParked /\ IntentParked /\ RestParked

NextRetrieve ==
    \/ \E rerank, compress, intent, stream, optional \in BOOLEAN :
          retrieve(rerank, compress, intent, stream, optional)
    \/ intent_task_runs
    \/ \E reply \in IntentReplies : call_intent_service_returns(reply)
    \/ \E outcome \in SearchOutcomes : call_search_service_returns(outcome)
    \/ \E ok \in BOOLEAN : call_rerank_service_returns(ok)
    \/ \E ok \in BOOLEAN : call_compression_service_returns(ok)
    \/ await_intent_task
    \/ \E ok \in BOOLEAN : call_answer_service_returns(ok)
    \/ retrieve_cancelled

SpecRetrieve == InitRetrieve /\ [][NextRetrieve]_vars

(* C10: intent classification runs in parallel with search: when the       *)
(* handler awaits the search the intent task has already been created, the *)
(* search, reranking and compression stages can each complete whatever the *)
(* state of the intent task, and the handler waits for the intent result   *)
(* only after all the stages it runs among these have completed.           *)
C10_IntentParallelToSearch ==
    /\ (rq.pc = "search" /\ rq.intent_detection) => intent_task.st # "none"
    /\ rq.pc = "search" => ENABLED call_search_service_returns("results")
    /\ rq.pc = "rerank" => ENABLED call_rerank_service_returns(TRUE)
    /\ rq.pc = "compress" => ENABLED call_compression_service_returns(TRUE)
    /\ rq.pc = "await_intent" =>
          /\ Completed("search")
          /\ rq.enable_reranking => Completed("reranking")
          /\ rq.enable_compression => Completed("compression")

\* search and reranking have completed and compression is awaited while the
\* request to the intent service is still in flight
C10_CompressingWhileIntentInFlight ==
    /\ rq.pc = "compress"
    /\ intent_task.st = "running"
    /\ Completed("search") /\ Completed("reranking")

(* C27: an error in an optional stage (rerank or compress) degrades        *)
(* gracefully when the request declares the stage optional: the stage is   *)
(* skipped, the previous stage's output flows on and the request succeeds; *)
(* only when the stage is not optional does the error fail the request. A  *)
(* request that declared the stages optional and ended with an error       *)
(* after its search did not fail in reranking or in compression.           *)
C27_OptionalStageErrorDegrades ==
    (rq.optional /\ rq.response = "error" /\ Completed("search")) =>
        /\ rq.enable_reranking => Completed("reranking")
        /\ rq.enable_compression => Completed("compression")

(* C28: when search returns no hits, the retrieval API returns a           *)
(* well-formed response with success=false, an apology answer, empty       *)
(* citations and all counts equal to 0, without calling the rerank,        *)
(* compression or answer stages: the step in which the search returns      *)
(* nothing ends the request with that response, and nothing of the         *)
(* request or of its stages changes afterwards.                            *)
C28_EmptySearchAnswersApology ==
    [][/\ call_search_service_returns("empty") =>
              /\ rq'.pc = "done"
              /\ rq'.response = "no_results"
              /\ rq'.body = [success |-> FALSE, answer |-> "apology",
                             citations |-> 0, counts |-> <<0, 0, 0, 0>>]
              /\ stages' = <<"search">>
       /\ rq.response = "no_results" => (rq' = rq /\ stages' = stages)]_vars

\* a request with reranking and compression enabled got the apology
C28_ApologyWithStagesEnabled ==
    /\ rq.response = "no_results"
    /\ rq.enable_reranking /\ rq.enable_compression
    /\ stages = <<"search">>

(* C26: when a top-level retrieval request is cancelled (client            *)
(* disconnect), every in-flight child call it started, including the       *)
(* concurrently spawned intent call, is cancelled, and no cache write is   *)
(* performed afterwards on behalf of that request: once the request is     *)
(* cancelled its intent call is neither waiting to be sent nor in flight.  *)
C26_CancellationReachesIntentCall ==
    rq.response = "cancelled" =>
        intent_task.st \notin {"scheduled", "running"}

(* C39: every intent task a retrieval request created has been awaited or  *)
(* cancelled by the time the request finishes, on every path: the return   *)
(* on an empty search result and the failures of search, reranking and     *)
(* compression included; no intent task outlives its request.              *)
C39_NoIntentTaskOutlivesRequest ==
    rq.pc = "done" => intent_task.st \in {"none", "finished", "cancelled"}

(* C18: when the intent classifier rejects the query of a retrieval        *)
(* request, the retrieval API responds with HTTP 400 carrying the          *)
(* please-rephrase message and the confidence, and does not generate an    *)
(* answer: once the handler has the result of a rejected classification it *)
(* never awaits the answer service, and it ends with the 400.              *)
C18_RejectionAnswersHttp400 ==
    (intent_task.reply = "rejected" /\ intent_data # "none") =>
        /\ rq.pc # "answer"
        /\ ~Completed("answer_generation")
        /\ rq.pc = "done" => rq.response = "http_400"


-----------------------------------------------------------------------------
(***************************************************************************)
(* Chunking Orchestrator -> Storage service: the contents of the records   *)
(* one orchestrate_pipeline run assembles and the collection keeps         *)
(*                                                                         *)
(* A string is a sequence of characters; the characters that matter are    *)
(* the double quote and, taken as one character, the text                  *)
(* ` or document_id != `.  A chunk text is known by its index in the run   *)
(* (1-based here, 0-based in the code) and by whether it is shorter than   *)
(* MIN_METADATA_LENGTH; a metadata result and a vector carry the index of  *)
(* the text they were computed from.                                       *)
(***************************************************************************)
Quote == "\""
OrNotEqual == " or document_id != "

\* the most rows the collection holds in the model
MaxRows == 3

\* the documents that are ingested, and the ids a delete can be asked for
DocumentIds == {<<"a">>, <<"b">>}
RequestedIds ==
    DocumentIds \cup {<<"a", Quote>>, <<"a", Quote, OrNotEqual, Quote>>}

\* the model registry's dimension of the configured model, and another one
DEFAULT_DIMENSION == "default"
Dimensions == {DEFAULT_DIMENSION, "other"}

MetadataFields ==
    {"keywords", "topics", "questions", "summary", "semantic_keywords",
     "entity_relationships", "attributes"}

\* a merge that lists the results of the started tasks one after the other
\* and has no place for the chunks that were skipped
generate_metadata_parallel_unaligned(chunks, succeeded) ==
    LET started == {i \in 1..Len(chunks) : chunks[i] # "short"}
        result_idx(i) == Cardinality({j \in started : j < i}) + 1
        text_of(k) == CHOOSE i \in started : result_idx(i) = k
    IN  [i \in 1..Len(chunks) |->
            IF i <= Cardinality(started) /\ succeeded[i]
            THEN [ok |-> TRUE, from |-> text_of(i)]
            ELSE [ok |-> FALSE, from |-> 0]]

\* the merged list of generate_metadata_parallel: None for a chunk shorter
\* than MIN_METADATA_LENGTH, else results[result_idx], the result of the
\* task of that chunk (None when generate_metadata_for_chunk failed);
\* succeeded[k] tells whether the k-th task that was started succeeded
generate_metadata_parallel(chunks, succeeded) ==
    LET started == {i \in 1..Len(chunks) : chunks[i] # "short"}
        result_idx(i) == Cardinality({j \in started : j < i}) + 1
        \* the k-th started task was given the text of the k-th long chunk
        text_of(k) == CHOOSE i \in started : result_idx(i) = k
        results == [k \in 1..Cardinality(started) |->
                       [ok |-> succeeded[k], from |-> text_of(k)]]
    IN  [i \in 1..Len(chunks) |->
            IF chunks[i] = "short"
            THEN [ok |-> FALSE, from |-> 0]
            ELSE IF results[result_idx(i)].ok
                 THEN results[result_idx(i)]
                 ELSE [ok |-> FALSE, from |-> 0]]

\* sorted(result['data'], key=lambda x: x['index'])
sorted_by_index(data) ==
    LET n == Len(data)
        rank(k) == Cardinality({j \in 1..n :
                       \/ data[j].index < data[k].index
                       \/ data[j].index = data[k].index /\ j < k}) + 1
    IN  [p \in 1..n |-> data[CHOOSE k \in 1..n : rank(k) = p]]

\* steps 4 and 5 of orchestrate_pipeline: the ChunkData objects and the
\* dicts sent to the storage service; embeddings_list is the list of
\* generate_embeddings_batch, metadata_results is <<>> for None
build_storage_chunks(document_id, chunks, metadata_results, embeddings_list) ==
    [idx \in 1..Len(chunks) |->
        LET has_metadata == /\ idx <= Len(metadata_results)
                            /\ metadata_results[idx].ok
        IN  [id |-> chunk_id(document_id, idx),
             document_id |-> document_id,
             chunk_index |-> idx,
             text |-> idx,
             dense_vector |-> IF idx <= Len(embeddings_list)
                              THEN embeddings_list[idx]
                              ELSE NoVector,
             metadata |-> [f \in MetadataFields |->
                              IF has_metadata
                              THEN <<f, metadata_results[idx].from>>
                              ELSE <<>>]]]


\* prepare_insert_data is called without a dimension: a value that is None
\* becomes get_default_value(field), for dense_vector the zero vector of
\* config.DEFAULT_DIMENSION
prepare_insert_data(chunks) ==
    [i \in 1..Len(chunks) |->
        IF chunks[i].dense_vector.present
        THEN chunks[i]
        ELSE [chunks[i] EXCEPT !.dense_vector =
                 [present |-> TRUE, from |-> 0, dim |-> DEFAULT_DIMENSION]]]

\* a collection that takes rows of any dimension
schema_accepts_any_dimension(collection, data) == TRUE

\* collection.insert(data) raises unless every dense_vector has the dim the
\* FieldSchema of dense_vector was created with
schema_accepts(collection, data) ==
    \A i \in 1..Len(data) : data[i].dense_vector.dim = collection.dimension

\* f'document_id == "{document_id}"'
delete_filter(document_id) ==
    <<"document_id == ", Quote>> \o document_id \o <<Quote>>

\* the boolean expression that collection.delete(filter_expr) is given: a
\* string literal ends at the next double quote; what follows it is
\* nothing, or ` or document_id != ` and one more literal, or a syntax error
parse_expr(filter_expr) ==
    LET s == SubSeq(filter_expr, 3, Len(filter_expr))
        p == CHOOSE i \in 1..Len(s) :
                 s[i] = Quote /\ \A j \in 1..(i - 1) : s[j] # Quote
        rest == SubSeq(s, p + 1, Len(s))
    IN  IF rest = <<>>
        THEN [valid |-> TRUE, equals |-> SubSeq(s, 1, p - 1),
              or_not_equals |-> <<>>]
        ELSE IF /\ Len(rest) >= 3
                /\ rest[1] = OrNotEqual
                /\ rest[2] = Quote
                /\ rest[Len(rest)] = Quote
                /\ \A j \in 3..(Len(rest) - 1) : rest[j] # Quote
             THEN [valid |-> TRUE, equals |-> SubSeq(s, 1, p - 1),
                   or_not_equals |-> <<SubSeq(rest, 3, Len(rest) - 1)>>]
             ELSE [valid |-> FALSE, equals |-> <<>>, or_not_equals |-> <<>>]

\* POST /v1/orchestrate: the request arrives and perform_chunking gives the
\* chunks (MaxRows caps the size of the collection in the model)
orchestrate_pipeline(document_id, chunks, generate_metadata) ==
    /\ run.pc = "idle"
    /\ Cardinality(milvus.rows) + Len(chunks) <= MaxRows
    /\ run' = [NoRun EXCEPT
                  !.pc = IF generate_metadata THEN "metadata" ELSE "embeddings",
                  !.document_id = document_id,
                  !.chunks = chunks,
                  !.generate_metadata = generate_metadata]
    /\ UNCHANGED milvus
    /\ UNCHANGED <<storage_reply, nonRecordVars>>

\* a pipeline that gives up when the metadata of a chunk could not be had
await_generate_metadata_parallel_strict(succeeded) ==
    /\ run.pc = "metadata"
    /\ Len(succeeded) = Cardinality({i \in 1..Len(run.chunks) :
                                         run.chunks[i] # "short"})
    /\ LET merged == generate_metadata_parallel(run.chunks, succeeded)
       IN  IF \E i \in 1..Len(merged) : ~merged[i].ok
           THEN run' = [NoRun EXCEPT !.status = "error"]
           ELSE run' = [run EXCEPT !.pc = "embeddings",
                                   !.metadata_list = merged]
    /\ UNCHANGED milvus
    /\ UNCHANGED <<storage_reply, nonRecordVars>>

\* step 2: `await generate_metadata_parallel(...)` returns the merged list;
\* succeeded has one entry per task that was started
await_generate_metadata_parallel(succeeded) ==
    /\ run.pc = "metadata"
    /\ Len(succeeded) = Cardinality({i \in 1..Len(run.chunks) :
                                         run.chunks[i] # "short"})
    /\ run' = [run EXCEPT
                  !.pc = "embeddings",
                  !.metadata_list =
                      generate_metadata_parallel(run.chunks, succeeded)]
    /\ UNCHANGED milvus
    /\ UNCHANGED <<storage_reply, nonRecordVars>>

\* steps 3 to 5 up to the call of the storage service: the embeddings
\* service answers (ok: with status 200) with one item per index of
\* `order` (distinct indexes of the input), in that order, every vector of
\* dimension dim; the handler sorts them, gives up without embeddings, else
\* builds the chunks
create_dense_embeddings(ok, order, dim) ==
    /\ run.pc = "embeddings"
    /\ \A k \in 1..Len(order) : order[k] <= Len(run.chunks)
    /\ \A j, k \in 1..Len(order) : j # k => order[j] # order[k]
    /\ LET data == [k \in 1..Len(order) |->
                       [index |-> order[k],
                        dense_embedding |-> [present |-> TRUE,
                                             from |-> order[k],
                                             dim |-> dim]]]
           sorted == sorted_by_index(data)
           embeddings_list == [k \in 1..Len(order) |->
                                  sorted[k].dense_embedding]
       IN  IF ~ok \/ Len(order) = 0
           THEN run' = [NoRun EXCEPT !.status = "error"]
           ELSE run' = [run EXCEPT
                           !.pc = "store",
                           !.storage_chunks =
                               build_storage_chunks(run.document_id, run.chunks,
                                                    run.metadata_list,
                                                    embeddings_list)]
    /\ UNCHANGED milvus
    /\ UNCHANGED <<storage_reply, nonRecordVars>>

\* POST /v1/insert of the storage service and insert_chunks: the request is
\* validated (dense_vector is a required list), a missing collection is
\* created with the dimension of the first chunk's vector, the rows are
\* prepared and inserted; ok = FALSE is any other failure of the call.
\* After a success `run` is the OrchestrationResponse (the chunks and what
\* was extracted for them) until the next request
insert_chunks_endpoint(ok) ==
    /\ run.pc = "store"
    /\ LET chunks == run.storage_chunks
           valid == \A i \in 1..Len(chunks) : chunks[i].dense_vector.present
           dimension == IF chunks[1].dense_vector.present
                        THEN chunks[1].dense_vector.dim
                        ELSE DEFAULT_DIMENSION
           collection == IF milvus.exists
                         THEN milvus
                         ELSE [exists |-> TRUE,
                               created_by |-> "insert_chunks",
                               dimension |-> dimension, rows |-> {}]
           data == prepare_insert_data(chunks)
       IN  IF ~ok \/ ~valid
           THEN /\ run' = [NoRun EXCEPT !.status = "error"]
                /\ UNCHANGED milvus
           ELSE IF schema_accepts(collection, data)
                THEN /\ milvus' = [collection EXCEPT !.rows =
                                      @ \cup {data[i] : i \in 1..Len(data)}]
                     /\ run' = [run EXCEPT !.pc = "idle",
                                             !.storage_chunks = <<>>,
                                             !.status = "success"]
                ELSE /\ milvus' = collection
                     /\ run' = [NoRun EXCEPT !.status = "error"]
    /\ UNCHANGED <<storage_reply, nonRecordVars>>

\* POST /v1/collection/create of the storage service with a dimension
create_collection_endpoint(dimension) ==
    /\ IF milvus.exists
       THEN /\ storage_reply' = [status |-> 400, success |-> FALSE]
            /\ UNCHANGED milvus
       ELSE /\ milvus' = [exists |-> TRUE, created_by |-> "create_collection",
                          dimension |-> dimension, rows |-> {}]
            /\ storage_reply' = [status |-> 200, success |-> TRUE]
    /\ UNCHANGED run
    /\ UNCHANGED nonRecordVars

\* DELETE /v1/documents/{document_id} -> call_storage_service_delete_document
\* -> POST /v1/delete -> delete_chunks: with no collection, or an
\* expression Milvus rejects, nothing is deleted
delete_chunks_endpoint(document_id) ==
    /\ LET expr == parse_expr(delete_filter(document_id))
           selected == {row \in milvus.rows :
                           \/ row.document_id = expr.equals
                           \/ \E k \in 1..Len(expr.or_not_equals) :
                                  row.document_id # expr.or_not_equals[k]}
       IN  IF milvus.exists /\ expr.valid
           THEN milvus' = [milvus EXCEPT !.rows = @ \ selected]
           ELSE UNCHANGED milvus
    /\ UNCHANGED run
    /\ UNCHANGED <<storage_reply, nonRecordVars>>

InitRecords ==
    /\ RecordsParked /\ IntentParked /\ RestParked
    /\ InitIngestVars /\ RetryParked /\ CacheParked /\ SemParked
    /\ RetrieveParked

NextRecords ==
    \/ \E d \in DocumentIds, n \in 1..MaxChunks, gm \in BOOLEAN :
           \E chunks \in [1..n -> {"short", "long"}] :
               orchestrate_pipeline(d, chunks, gm)
    \/ \E n \in 0..MaxChunks : \E succeeded \in [1..n -> BOOLEAN] :
           await_generate_metadata_parallel(succeeded)
    \/ \E ok \in BOOLEAN, dim \in Dimensions, n \in 0..MaxChunks :
           \E order \in [1..n -> 1..MaxChunks] :
               create_dense_embeddings(ok, order, dim)
    \/ \E ok \in BOOLEAN : insert_chunks_endpoint(ok)
    \/ \E dim \in Dimensions : create_collection_endpoint(dim)
    \/ \E d \in RequestedIds : delete_chunks_endpoint(d)

SpecRecords == InitRecords /\ [][NextRecords]_vars

(* C32: requesting the creation of a collection that already exists, with *)
(* the dimension it has, is a successful no-op: the call reports success  *)
(* and the collection and its chunks are left unchanged.                   *)
C32_CreateExistingIsSuccessfulNoOp ==
    [][(/\ milvus.exists
        /\ create_collection_endpoint(milvus.dimension)) =>
           (storage_reply'.success /\ milvus' = milvus)]_vars


(* C12: if metadata extraction fails for some chunks of a document while   *)
(* others succeed, the ingestion still succeeds and every chunk is         *)
(* persisted, the failed ones with all metadata fields empty: the metadata *)
(* step always hands over to the embeddings step, and the step that stores *)
(* the document stores the record of every chunk, with every metadata      *)
(* field empty for a chunk that has no metadata result.                    *)
C12_MetadataFailureKeepsChunks ==
    [][/\ (run.pc = "metadata" /\ run' # run) => run'.pc = "embeddings"
       /\ (run.pc = "store" /\ run'.status = "success") =>
              \A i \in 1..Len(run.chunks) :
                  /\ run.storage_chunks[i] \in milvus'.rows
                  /\ run.storage_chunks[i].chunk_index = i
                  /\ (i > Len(run.metadata_list) \/ ~run.metadata_list[i].ok)
                         => \A f \in MetadataFields :
                                run.storage_chunks[i].metadata[f] = <<>>]_vars

C12_StoredWithAndWithoutMetadata ==
    /\ run.status = "success"
    /\ \E i, j \in 1..Len(run.metadata_list) :
           /\ run.chunks[i] = "long" /\ run.metadata_list[i].ok
           /\ run.chunks[j] = "long" /\ ~run.metadata_list[j].ok
           /\ \E ri, rj \in milvus.rows :
                  /\ ri.id = chunk_id(run.document_id, i)
                  /\ rj.id = chunk_id(run.document_id, j)
                  /\ \A f \in MetadataFields :
                         ri.metadata[f] # <<>> /\ rj.metadata[f] = <<>>


(* C13: records are assembled by index: every stored chunk with index i    *)
(* has the text of chunk i, the dense vector computed from the text of     *)
(* chunk i and, in every metadata field that is not empty, the metadata    *)
(* computed from the text of chunk i, also when chunks were skipped for    *)
(* being too short or failed metadata extraction.                          *)
C13_AssembledByIndex ==
    \A row \in milvus.rows :
        /\ row.text = row.chunk_index
        /\ row.dense_vector.from = row.chunk_index
        /\ \A f \in MetadataFields :
               row.metadata[f] # <<>> => row.metadata[f] = <<f, row.chunk_index>>

C13_StoredAfterSkippedChunk ==
    /\ run.status = "success"
    /\ Len(run.metadata_list) = 2
    /\ run.chunks[1] = "short"
    /\ run.metadata_list[2].ok
    /\ \E row \in milvus.rows :
           /\ row.id = chunk_id(run.document_id, 2)
           /\ row.dense_vector.from = 2
           /\ \A f \in MetadataFields : row.metadata[f] = <<f, 2>>


C15_DeleteRemovesExactlyTheDocument ==
    [][\A d \in RequestedIds :
           delete_chunks_endpoint(d) =>
               milvus'.rows = {row \in milvus.rows : row.document_id # d}]_vars


-----------------------------------------------------------------------------
(***************************************************************************)
(* Intent service: analyze_intent, the pattern matcher (Tier 1), the LLM   *)
(* call (Tier 2), the query logs and the learning queue                    *)
(*                                                                         *)
(* Confidences are in hundredths: 40 is 0.40, 100 is 1.0.                  *)
(***************************************************************************)
\* AdvancedPatternMatcher.CONFIDENCE_THRESHOLDS "high", "medium", "low"
THRESHOLD_HIGH == 90
THRESHOLD_MEDIUM == 70
THRESHOLD_LOW == 50
\* config.CONFIDENCE_THRESHOLD_REJECT, config.CONFIDENCE_THRESHOLD_FALLBACK
CONFIDENCE_THRESHOLD_REJECT == 40
CONFIDENCE_THRESHOLD_FALLBACK == 60
\* intent_data.get("confidence", 0.9); the confidence of the fallback dict
\* of call_llm_gateway
DEFAULT_LLM_CONFIDENCE == 90
FALLBACK_LLM_CONFIDENCE == 50

\* the most entries a log file, and the learning queue, hold in the model
MaxLogged == 1

\* config.SUPPORTED_INTENTS (three of them)
SUPPORTED_INTENTS == {"comparison", "aggregation", "factual_retrieval"}

\* final scores of the best intent after penalties and boosts, before the
\* cap (0: no pattern matched)
PatternScores == {0, 45, 50, 69, 70, 89, 90, 130}

\* what the LLM answers: text that is no JSON (or a failed call), or a JSON
\* object with or without the keys, the intent and the number being the LLM's
LlmOutputs ==
    {[parsed |-> FALSE, data |-> [reasoning |-> "none"]],
     [parsed |-> TRUE, data |-> [reasoning |-> "no keys"]]}
    \cup {[parsed |-> TRUE, data |-> d] :
             d \in [intent : {"comparison", "aggregation", "small_talk"},
                    confidence : {0, 39, 40, 59, 60, 85, 150}]}

\* dict.get(key, default)
get(dict, key, default) == IF key \in DOMAIN dict THEN dict[key] ELSE default

\* call_llm_gateway: the parsed JSON, or the fallback dict
call_llm_gateway(output) ==
    IF output.parsed
    THEN output.data
    ELSE [intent |-> "factual_retrieval",
          confidence |-> FALLBACK_LLM_CONFIDENCE]

\* AdvancedPatternMatcher.match: the best score capped at 1.0; None when no
\* pattern matched or the score is below "low"
match(intent, score) ==
    LET best_score == IF score < 100 THEN score ELSE 100
    IN  IF score = 0 \/ best_score < THRESHOLD_LOW
        THEN [matched |-> FALSE, intent |-> "None", confidence |-> 0]
        ELSE [matched |-> TRUE, intent |-> intent, confidence |-> best_score]

get_confidence_level(confidence) ==
    IF confidence >= THRESHOLD_HIGH THEN "high"
    ELSE IF confidence >= THRESHOLD_MEDIUM THEN "medium"
    ELSE "low"

\* a logger that has one file for both kinds of event
log_query_event_to_one_file(logs, event_type) ==
    [logs EXCEPT !.low_confidence = @ + 1]

\* query_logger.log_query_event: one line appended to the file of the event
log_query_event(logs, event_type) ==
    IF event_type = "rejected"
    THEN [logs EXCEPT !.rejected = @ + 1]
    ELSE [logs EXCEPT !.low_confidence = @ + 1]

\* PatternLearner.add_to_queue (learning_enabled): the item is appended
\* (the queue stays below batch_size in the model: no learning cycle runs)
add_to_queue(queue, llm_intent, pattern_intent) ==
    [len |-> queue.len + 1,
     last |-> [llm_intent |-> llm_intent, pattern_intent |-> pattern_intent,
               mismatch |-> pattern_intent # "None"
                            /\ pattern_intent # llm_intent]]

\* a verification in which the pattern has the last word
verify_with_llm_pattern_wins(pattern_intent, pattern_confidence, llm_intent, llm_confidence) ==
    [intent |-> pattern_intent, confidence |-> pattern_confidence]

\* the medium branch: the LLM confirmed the pattern, or disagreed
verify_with_llm(pattern_intent, pattern_confidence, llm_intent, llm_confidence) ==
    IF llm_intent = pattern_intent
    THEN [intent |-> pattern_intent,
          confidence |-> IF pattern_confidence >= llm_confidence
                         THEN pattern_confidence
                         ELSE llm_confidence]
    ELSE [intent |-> llm_intent, confidence |-> llm_confidence]


\* the end of analyze_intent, from "CONFIDENCE THRESHOLD ENFORCEMENT" on:
\* HTTPException 400 below the reject threshold, else the IntentResponse,
\* with the safe intent below the fallback threshold or for an unknown one
respond(intent, confidence, route, score, llm_intent, llm_confidence) ==
    /\ analysis' = NoAnalysis
    /\ IF confidence < CONFIDENCE_THRESHOLD_REJECT
       THEN /\ query_logs' = log_query_event(query_logs, "rejected")
            /\ verdict' = [status |-> 400, detail |-> "please_rephrase",
                           intent |-> "none", confidence |-> confidence,
                           route |-> route, score |-> score,
                           llm_intent |-> llm_intent,
                           llm_confidence |-> llm_confidence]
       ELSE /\ query_logs' =
                   IF confidence < CONFIDENCE_THRESHOLD_FALLBACK
                   THEN log_query_event(query_logs, "low_confidence")
                   ELSE query_logs
            /\ verdict' = [status |-> 200, detail |-> "none",
                           intent |->
                               IF \/ confidence < CONFIDENCE_THRESHOLD_FALLBACK
                                  \/ intent \notin SUPPORTED_INTENTS
                               THEN "factual_retrieval"
                               ELSE intent,
                           confidence |-> confidence,
                           route |-> route, score |-> score,
                           llm_intent |-> llm_intent,
                           llm_confidence |-> llm_confidence]

\* POST /v1/analyze up to the first await: a high pattern match is answered
\* at once, a medium one is verified by the LLM, anything else goes to the
\* full LLM classification (MaxLogged caps the files and the queue)
analyze_intent(intent, score) ==
    /\ analysis.pc = "idle"
    /\ query_logs.rejected < MaxLogged
    /\ query_logs.low_confidence < MaxLogged
    /\ learning_queue.len < MaxLogged
    /\ LET pattern_result == match(intent, score)
           confidence_level == get_confidence_level(pattern_result.confidence)
           best_score == IF score < 100 THEN score ELSE 100
       IN  IF pattern_result.matched /\ confidence_level = "high"
           THEN /\ respond(pattern_result.intent, pattern_result.confidence,
                           "pattern", best_score, "none", 0)
                /\ UNCHANGED learning_queue
           ELSE /\ analysis' =
                       [pc |-> IF /\ pattern_result.matched
                                  /\ confidence_level = "medium"
                               THEN "llm_verify"
                               ELSE "llm_full",
                        score |-> best_score,
                        pattern_intent |-> pattern_result.intent,
                        pattern_confidence |-> pattern_result.confidence]
                /\ UNCHANGED <<verdict, query_logs, learning_queue>>
    /\ UNCHANGED nonIntentVars

\* `intent_data = await call_llm_gateway(request.query)` returns, in the
\* medium branch or in step 2, and the handler runs to its end
await_call_llm_gateway(output) ==
    /\ analysis.pc \in {"llm_verify", "llm_full"}
    /\ LET llm_dict == call_llm_gateway(output)
           llm_intent == get(llm_dict, "intent", "factual_retrieval")
           llm_confidence == get(llm_dict, "confidence",
                                 DEFAULT_LLM_CONFIDENCE)
           verified == verify_with_llm(analysis.pattern_intent,
                                       analysis.pattern_confidence,
                                       llm_intent, llm_confidence)
       IN  IF analysis.pc = "llm_verify"
           THEN /\ learning_queue' =
                       IF llm_intent = analysis.pattern_intent
                       THEN learning_queue
                       ELSE add_to_queue(learning_queue, llm_intent,
                                         analysis.pattern_intent)
                /\ respond(verified.intent, verified.confidence, "llm_verify",
                           analysis.score, llm_intent, llm_confidence)
           ELSE /\ learning_queue' =
                       add_to_queue(learning_queue, llm_intent, "None")
                /\ respond(llm_intent, llm_confidence, "llm_full",
                           analysis.score, llm_intent, llm_confidence)
    /\ UNCHANGED nonIntentVars

InitIntent ==
    /\ IntentParked
    /\ InitIngestVars /\ RetryParked /\ CacheParked /\ SemParked
    /\ RetrieveParked /\ RecordsParked /\ RestParked

NextIntent ==
    \/ \E score \in PatternScores : analyze_intent("comparison", score)
    \/ \E output \in LlmOutputs : await_call_llm_gateway(output)

SpecIntent == InitIntent /\ [][NextIntent]_vars

\* the handler answers in this step: it is back at its start and something
\* of the service changed
Responds ==
    /\ analysis' = NoAnalysis
    /\ <<analysis, verdict, query_logs, learning_queue>>' #
           <<analysis, verdict, query_logs, learning_queue>>

(* C16: the Tier-1 confidence decides the route: below 0.50 the query      *)
(* falls back to Tier 2; in [0.50, 0.70) the Tier-1 intent is kept but     *)
(* verified by a Tier-2 call; in [0.70, 0.90) and at 0.90 or above the     *)
(* Tier-1 result is used directly with no Tier-2 call.                     *)
C16_Tier1ConfidenceDecidesRoute ==
    verdict.status # 0 =>
        /\ verdict.score < THRESHOLD_LOW => verdict.route = "llm_full"
        /\ (THRESHOLD_LOW <= verdict.score
               /\ verdict.score < THRESHOLD_MEDIUM) =>
              verdict.route = "llm_verify"
        /\ verdict.score >= THRESHOLD_MEDIUM => verdict.route = "pattern"

C19_ConfidenceInUnitInterval ==
    verdict.status = 200 =>
        0 <= verdict.confidence /\ verdict.confidence <= 100

C21_EveryLlmQueryQueued ==
    [][(analysis.pc \in {"llm_verify", "llm_full"} /\ Responds) =>
           learning_queue'.len = learning_queue.len + 1]_vars

-----------------------------------------------------------------------------
(* The pattern learner of the intent service (PatternLearner), the file    *)
(* pattern_library.json and the matchers that load it: the v1 matcher of   *)
(* pattern_matcher.py and the v2 matcher that serves POST /v1/analyze      *)

\* PatternLearner.batch_size, auto_approve_threshold, and the least number
\* of queries of one intent that run_learning_cycle analyses
LEARNING_BATCH_SIZE == 10
AUTO_APPROVE_THRESHOLD == 95
MIN_EXAMPLES == 3

\* learning cycles and process restarts of a behaviour
MaxCycles == 1
MaxCrashes == 1

\* largest number of queries queued by other requests during one cycle
MaxLate == 1

\* what the meta-LLM suggests for one intent: no pattern (or no JSON), or
\* lists of patterns whose regex and confidence are the meta-LLM's
SuggestionLists ==
    {<<>>,
     <<[regex |-> "difference between", confidence |-> 95]>>,
     <<[regex |-> "how many", confidence |-> 90],
       [regex |-> "(", confidence |-> 97]>>,
     <<[regex |-> "in total", confidence |-> 150]>>}

\* re.compile(regex): an unbalanced parenthesis is a re.error
compiles(regex) == regex # "("

Total(queue) == queue.comparison + queue.small_talk

\* reload_patterns: self.patterns of a matcher after it read the file; a
\* file that is no JSON leaves the matcher without patterns
reload_patterns(file) == IF file.complete THEN file.patterns ELSE <<>>

\* the body of _add_patterns_to_library up to the save: the library dict
\* with the key of the intent and with the suggestions at or above the
\* auto-approve threshold appended
with_approved(file, intent, suggestions) ==
    LET approved == SelectSeq(suggestions,
                       LAMBDA sg : sg.confidence >= AUTO_APPROVE_THRESHOLD)
    IN  [complete |-> TRUE,
         keys |-> file.keys \cup {intent},
         patterns |-> file.patterns \o
             [i \in 1..Len(approved) |->
                 [intent |-> intent, regex |-> approved[i].regex,
                  confidence |-> approved[i].confidence]]]

\* run_learning_cycle past one intent group: the next group, or the end of
\* the cycle (queue.clear(), _save_queue(), processing = False) and the
\* return of add_to_queue to the request that awaits it
group_done(l, intent) ==
    IF l.groups \ {intent} # {}
    THEN [l EXCEPT !.pc = "discover", !.groups = @ \ {intent},
                   !.writing = <<>>]
    ELSE [l EXCEPT !.pc = "idle", !.groups = {}, !.writing = <<>>,
                   !.queue = EmptyQueue, !.saved = EmptyQueue,
                   !.processing = FALSE, !.waiting = FALSE,
                   !.late = EmptyQueue, !.cycles = @ + 1]

\* `await pattern_learner.add_to_queue(...)` of an analyze request whose
\* query the LLM classified: the item is appended, the queue is saved at
\* every fifth item, and at batch_size the request goes on into
\* run_learning_cycle, up to the first call of the meta-LLM (the model
\* takes the analyze requests one at a time)
add_to_queue_call(llm_intent) ==
    /\ learner.pc = "idle"
    /\ learner.cycles < MaxCycles
    /\ LET queue == [learner.queue EXCEPT ![llm_intent] = @ + 1]
           saved == IF Total(queue) % 5 = 0 THEN queue ELSE learner.saved
           groups == {intent \in DOMAIN queue : queue[intent] >= MIN_EXAMPLES}
       IN  learner' =
               IF Total(queue) >= LEARNING_BATCH_SIZE /\ ~learner.processing
               THEN IF groups = {}
                    THEN [learner EXCEPT !.queue = EmptyQueue,
                                         !.saved = EmptyQueue,
                                         !.cycles = @ + 1]
                    ELSE [learner EXCEPT !.queue = queue, !.saved = saved,
                                         !.pc = "discover",
                                         !.processing = TRUE,
                                         !.groups = groups,
                                         !.waiting = TRUE]
               ELSE [learner EXCEPT !.queue = queue, !.saved = saved]
    /\ UNCHANGED library
    /\ UNCHANGED nonLearnVars

\* add_to_queue of another analyze request while the cycle awaits the
\* meta-LLM: processing is True, so the item is appended, the queue is
\* saved at every fifth item, and the request returns
add_to_queue_during_cycle(llm_intent) ==
    /\ learner.pc = "discover"
    /\ Total(learner.late) < MaxLate
    /\ LET queue == [learner.queue EXCEPT ![llm_intent] = @ + 1]
       IN  learner' = [learner EXCEPT
                          !.queue = queue,
                          !.saved = IF Total(queue) % 5 = 0 THEN queue ELSE @,
                          !.late[llm_intent] = @ + 1]
    /\ UNCHANGED library
    /\ UNCHANGED nonLearnVars

\* `suggestions = await self._discover_patterns(intent, queries)` returns
\* for one group; with suggestions _add_patterns_to_library loads the
\* library (a file that is no JSON ends it: "return 0"), appends what is
\* approved and opens the library path for writing, which truncates it
discover_patterns_returns(intent, suggestions) ==
    /\ learner.pc = "discover"
    /\ intent \in learner.groups
    /\ IF suggestions = <<>> \/ ~library.file.complete
       THEN /\ learner' = group_done(learner, intent)
            /\ UNCHANGED library
       ELSE /\ learner' =
                   [learner EXCEPT
                       !.pc = "write", !.groups = {intent} \cup @,
                       !.writing = <<intent, with_approved(library.file,
                                                intent, suggestions)>>]
            /\ library' =
                   [library EXCEPT
                       !.file = [complete |-> FALSE, keys |-> {},
                                 patterns |-> <<>>]]
    /\ UNCHANGED nonLearnVars

\* json.dump(library, f) and the close of the file; then "matcher =
\* get_matcher(); matcher.reload_patterns()" with get_matcher imported from
\* pattern_matcher: the v1 matcher reads the file
json_dump_returns ==
    /\ learner.pc = "write"
    /\ library' = [library EXCEPT
                      !.file = learner.writing[2],
                      !.matcher = reload_patterns(learner.writing[2])]
    /\ learner' = group_done(learner, learner.writing[1])
    /\ UNCHANGED nonLearnVars

\* the process is killed and the service is started again: the queue is
\* loaded from learning_queue.jsonl, get_matcher_v2() builds the matcher
\* of the service from the library file, and no v1 matcher is built
process_restarts ==
    /\ learner.crashes < MaxCrashes
    /\ learner' = [pc |-> "idle", queue |-> learner.saved,
                   saved |-> learner.saved, processing |-> FALSE,
                   groups |-> {}, writing |-> <<>>, waiting |-> FALSE,
                   late |-> EmptyQueue, cycles |-> learner.cycles,
                   crashes |-> learner.crashes + 1]
    /\ library' = [library EXCEPT
                      !.matcher = <<>>,
                      !.matcher_v2 = reload_patterns(library.file)]
    /\ UNCHANGED nonLearnVars

InitLearn ==
    /\ LearnParked
    /\ InitIngestVars /\ RetryParked /\ CacheParked /\ SemParked
    /\ RetrieveParked /\ RecordsParked /\ IntentParked /\ BoostParked
    /\ BatchParked
    /\ MetaParked
    /\ AccessParked
    /\ LoopParked
    /\ ServedParked
    /\ KeyedParked

NextLearn ==
    \/ \E llm_intent \in DOMAIN EmptyQueue : add_to_queue_call(llm_intent)
    \/ \E llm_intent \in DOMAIN EmptyQueue :
           add_to_queue_during_cycle(llm_intent)
    \/ \E intent \in DOMAIN EmptyQueue, suggestions \in SuggestionLists :
           discover_patterns_returns(intent, suggestions)
    \/ json_dump_returns
    \/ process_restarts

SpecLearn == InitLearn /\ [][NextLearn]_vars

(* C36: a learning cycle removes from the learning queue only the entries  *)
(* it processed: the entries other requests appended while the cycle was   *)
(* awaiting the meta-LLM, and the entries of intent groups with fewer than *)
(* 3 queries, are still in the queue, in memory and on disk, after the     *)
(* cycle ends.                                                             *)
C36_CycleKeepsUnprocessedEntries ==
    [][(learner.pc # "idle" /\ learner'.cycles = learner.cycles + 1) =>
           \A intent \in DOMAIN EmptyQueue :
               LET kept == IF learner.queue[intent] - learner.late[intent]
                                 < MIN_EXAMPLES
                           THEN learner.queue[intent]
                           ELSE learner.late[intent]
               IN  /\ learner'.queue[intent] = kept
                   /\ learner'.saved[intent] = kept]_vars

(* C22: after a learning cycle appends approved patterns to the library,   *)
(* the in-memory library of the matcher that serves classification         *)
(* requests is reloaded, so queries arriving afterwards are matched        *)
(* against the new patterns without a restart: between cycles the serving  *)
(* matcher holds the patterns of the library file.                         *)
C22_ServingMatcherReloaded ==
    (learner.pc = "idle" /\ library.file.complete) =>
        library.matcher_v2 = library.file.patterns

(* C23: the pattern library file is replaced atomically: a reader or a     *)
(* crash at any moment finds either the complete old library or the        *)
(* complete new one at the library path, never a partial file.             *)
C23_LibraryFileNeverPartial == library.file.complete

(* C24: after any number of learning cycles the pattern library still      *)
(* satisfies its invariant: every pattern is a compilable regex, every     *)
(* pattern confidence is in [0,1], and every intent key is one of the      *)
(* allowed intent names.                                                   *)
C24_LibraryInvariantKept ==
    library.file.complete =>
        /\ library.file.keys \subseteq SUPPORTED_INTENTS
        /\ \A i \in 1..Len(library.file.patterns) :
              LET pattern_obj == library.file.patterns[i]
              IN  /\ compiles(pattern_obj.regex)
                  /\ 0 <= pattern_obj.confidence
                  /\ pattern_obj.confidence <= 100
                  /\ pattern_obj.intent \in SUPPORTED_INTENTS

(* C25: pattern learning runs in the background: the classification        *)
(* request whose entry fills the queue to the batch size returns its       *)
(* response without waiting for the learning cycle (meta-LLM calls and     *)
(* library rewrite) to finish.                                             *)
C25_RequestNotHeldByLearning ==
    learner.pc # "idle" => ~learner.waiting

-----------------------------------------------------------------------------
(* The search service: metadata boosting of one Milvus hit (search_api     *)
(* search_endpoint, metadata_boost.apply_metadata_boost). Scores, weights  *)
(* and boosts are in thousandths; similarity and coverage in percent.      *)

\* config.BOOST_WEIGHTS (the four fields apply_metadata_boost reads) and
\* config.MAX_TOTAL_BOOST
BOOST_WEIGHTS ==
    [keywords |-> 100, topics |-> 60, questions |-> 80, summary |-> 60]
MAX_TOTAL_BOOST == 600

\* the most query keywords found among the keywords of a chunk
MaxMatches == 4

\* request.boost_weights: absent (None, or the empty dict), or a dict of
\* floats of the client's choice
SuppliedWeights ==
    {<<>>,
     [keywords |-> 1000],
     [keywords |-> -500, topics |-> 60, questions |-> 80, summary |-> 60]}

\* a Milvus hit and the query, as far as the boost functions look at them:
\* the vector score, the number of query keywords among the chunk's
\* keywords, the number of topics that hold a query keyword, the best
\* Jaccard similarity of a question, the share of the query keywords found
\* in the summary
Hits ==
    [score : {0, 850}, keywords : 0..MaxMatches, topics : {0, 2},
     questions : {30, 50, 80}, summary : {30, 60, 100}]

\* apply_metadata_boost with boost_keywords, boost_topics, boost_questions
\* and boost_summary
apply_metadata_boost(hit, weights, max_boost) ==
    LET kw_boost ==
            (IF hit.keywords < 3 THEN hit.keywords ELSE 3)
                * get(weights, "keywords", 100)
        topic_boost == hit.topics * get(weights, "topics", 50)
        question_weight == get(weights, "questions", 80)
        question_boost ==
            IF hit.questions > 50 THEN question_weight
            ELSE IF hit.questions > 30 THEN question_weight \div 2
            ELSE 0
        summary_weight == get(weights, "summary", 70)
        summary_boost ==
            IF hit.summary > 60 THEN summary_weight
            ELSE IF hit.summary > 30
                 THEN (summary_weight * hit.summary) \div 60
            ELSE 0
        total == kw_boost + topic_boost + question_boost + summary_boost
    IN  IF total < max_boost THEN total ELSE max_boost

\* POST /search, step 3 for one hit: "boost_weights = request.boost_weights
\* or config.BOOST_WEIGHTS", the boost when the request enables it, and the
\* SearchResultItem
search_endpoint(use_metadata_boost, supplied, hit) ==
    /\ search.pc = "idle"
    /\ LET boost_weights ==
               IF DOMAIN supplied = {} THEN BOOST_WEIGHTS ELSE supplied
           metadata_boost ==
               IF use_metadata_boost
               THEN apply_metadata_boost(hit, boost_weights, MAX_TOTAL_BOOST)
               ELSE 0
       IN  search' = [pc |-> "done",
                      use_metadata_boost |-> use_metadata_boost,
                      boost_weights |-> supplied,
                      hit |-> hit,
                      item |-> [score |-> hit.score + metadata_boost,
                                vector_score |-> hit.score,
                                metadata_boost |-> metadata_boost]]
    /\ UNCHANGED nonBoostVars

InitBoost ==
    /\ BoostParked /\ LearnParked /\ BatchParked
    /\ InitIngestVars /\ RetryParked /\ CacheParked /\ SemParked
    /\ RetrieveParked /\ RecordsParked /\ IntentParked
    /\ MetaParked
    /\ AccessParked
    /\ LoopParked
    /\ ServedParked
    /\ KeyedParked

NextBoost ==
    \E use_metadata_boost \in BOOLEAN, supplied \in SuppliedWeights,
       hit \in Hits :
        search_endpoint(use_metadata_boost, supplied, hit)

SpecBoost == InitBoost /\ [][NextBoost]_vars

(* C29: for every search result returned with boost enabled, final_score   *)
(* equals vector_score plus boost and 0 <= boost <= MAX_TOTAL_BOOST, for   *)
(* the default weights and for any boost weights supplied by the request.  *)
C29_BoostWithinBounds ==
    (search.pc = "done" /\ search.use_metadata_boost) =>
        /\ search.item.score =
               search.item.vector_score + search.item.metadata_boost
        /\ 0 <= search.item.metadata_boost
        /\ search.item.metadata_boost <= MAX_TOTAL_BOOST

-----------------------------------------------------------------------------
(* Metadata service: POST /v1/metadata/batch                               *)

\* largest number of chunks in one modelled batch request
MaxBatch == 3

\* what one extract_metadata_with_semaphore task ends with: the dict of a
\* fresh extraction, the dict of a cache hit, or the HTTPException raised
\* once the retries of call_llm_gateway are used up
TaskOutcomes == {"result", "cached_result", "HTTPException"}

\* the fields of MetadataResponse declared without a default
RequiredFields ==
    {"keywords", "topics", "questions", "summary", "semantic_keywords",
     "entity_relationships", "attributes", "model_used", "processing_time_ms"}

\* the fields of MetadataResponse declared with a default
DefaultedFields == [chunk_id |-> "None", api_version |-> "1.0.0"]

\* the dict extract_metadata returns, from the LLM or from the cache
result_dict(outcome) ==
    [keywords |-> "text", topics |-> "text", questions |-> "text",
     summary |-> "text", semantic_keywords |-> "text",
     entity_relationships |-> "text", attributes |-> "text",
     chunk_id |-> "id", model_used |-> "model",
     processing_time_ms |-> IF outcome = "cached_result" THEN "0" ELSE "ms",
     api_version |-> "1.0.0",
     cached |-> IF outcome = "cached_result" THEN "True" ELSE "False"]

\* the keyword arguments the batch endpoint passes for a task that raised
failure_kwargs ==
    [keywords |-> "", topics |-> "", questions |-> "", summary |-> "Error",
     chunk_id |-> "id", model_used |-> "model", processing_time_ms |-> "0",
     api_version |-> "1.0.0"]

\* pydantic: constructing a model without one of its required fields raises
\* ValidationError
validates(kwargs) == RequiredFields \subseteq DOMAIN kwargs

\* MetadataResponse(**kwargs) when it validates: the declared fields, the
\* defaults filled in, keys that are not fields ignored
MetadataResponse(kwargs) ==
    [f \in RequiredFields \cup DOMAIN DefaultedFields |->
        IF f \in DOMAIN kwargs THEN kwargs[f] ELSE DefaultedFields[f]]

\* the keyword arguments of the i-th result of the loop over results_data
kwargs_of(result_data) ==
    IF result_data = "HTTPException" THEN failure_kwargs
    ELSE result_dict(result_data)

\* the request arrives: one task per chunk, all handed to asyncio.gather
extract_metadata_batch_arrives(n) ==
    /\ batch.pc = "idle"
    /\ batch' = [NoBatch EXCEPT !.pc = "gather",
                                !.results_data = [i \in 1..n |-> "pending"]]
    /\ UNCHANGED nonBatchVars

\* the task of chunk i finishes, in any order among the tasks
extract_metadata_returns(i, outcome) ==
    /\ batch.pc = "gather"
    /\ i \in DOMAIN batch.results_data
    /\ batch.results_data[i] = "pending"
    /\ batch' = [batch EXCEPT !.results_data[i] = outcome]
    /\ UNCHANGED nonBatchVars

\* gather(return_exceptions=True) returns the outcomes in input order; the
\* loop builds one MetadataResponse per outcome; a ValidationError leaves
\* the handler and FastAPI answers 500; otherwise the batch response
gather_returns ==
    /\ batch.pc = "gather"
    /\ \A i \in DOMAIN batch.results_data : batch.results_data[i] # "pending"
    /\ LET data == batch.results_data
           raised == {i \in DOMAIN data : data[i] = "HTTPException"}
       IN IF \A i \in DOMAIN data : validates(kwargs_of(data[i]))
          THEN batch' = [batch EXCEPT
                    !.pc = "done",
                    !.results = [i \in DOMAIN data |->
                                    MetadataResponse(kwargs_of(data[i]))],
                    !.successful = Len(data) - Cardinality(raised),
                    !.failed = Cardinality(raised),
                    !.status = 200]
          ELSE batch' = [batch EXCEPT !.pc = "done", !.status = 500]
    /\ UNCHANGED nonBatchVars

InitBatch ==
    /\ BatchParked /\ LearnParked /\ BoostParked
    /\ InitIngestVars /\ RetryParked /\ CacheParked /\ SemParked
    /\ RetrieveParked /\ RecordsParked /\ IntentParked
    /\ MetaParked
    /\ AccessParked
    /\ LoopParked
    /\ ServedParked
    /\ KeyedParked

NextBatch ==
    \/ \E n \in 1..MaxBatch : extract_metadata_batch_arrives(n)
    \/ \E i \in 1..MaxBatch, outcome \in TaskOutcomes :
           extract_metadata_returns(i, outcome)
    \/ gather_returns

SpecBatch == InitBatch /\ [][NextBatch]_vars

(* C30: in a metadata batch of N chunks the failure of one chunk does not  *)
(* fail the batch: the response has status 200 and N results in input      *)
(* order, a failed chunk's record has every metadata field empty and the   *)
(* error marker, and the failures are counted in `failed`.                 *)
C30_FailedChunkNeverFailsBatch ==
    batch.pc = "done" =>
        /\ batch.status = 200
        /\ Len(batch.results) = Len(batch.results_data)
        /\ batch.failed =
               Cardinality({i \in DOMAIN batch.results_data :
                               batch.results_data[i] = "HTTPException"})
        /\ \A i \in DOMAIN batch.results :
               batch.results_data[i] = "HTTPException" =>
                   /\ \A f \in {"keywords", "topics", "questions",
                                "semantic_keywords", "entity_relationships",
                                "attributes"} : batch.results[i][f] = ""
                   /\ batch.results[i].summary = "Error"

-----------------------------------------------------------------------------
(* Metadata service: clean_metadata_response on entity_relationships       *)

\* A field value is a sequence of tokens: "T" a run of TextLen characters
\* of entity or relationship text, "arrow" one arrow, "pipe" and "comma" one
\* separator character, "spaced_pipe" the three characters " | " of the
\* join, "T_part" what is left of a text run cut by the slice.

\* largest number of tokens of the field the LLM returns
MaxTokens == 5

\* characters of one run of text
TextLen == 600

\* field_limits["entity_relationships"]
ENTITY_RELATIONSHIPS_LIMIT == 1000

RawTokens == {"T", "arrow", "pipe", "comma"}

token_len(t) ==
    CASE t = "T" -> TextLen
      [] t = "spaced_pipe" -> 3
      [] t = "T_part" -> 1
      [] OTHER -> 1

RECURSIVE len(_)
len(s) == IF s = <<>> THEN 0 ELSE token_len(Head(s)) + len(Tail(s))

\* s.split("|"): the items between the pipes
RECURSIVE split(_)
split(s) ==
    IF \A i \in DOMAIN s : s[i] \notin {"pipe", "spaced_pipe"} THEN <<s>>
    ELSE LET i == CHOOSE j \in DOMAIN s :
                      /\ s[j] \in {"pipe", "spaced_pipe"}
                      /\ \A k \in 1..(j - 1) : s[k] \notin {"pipe", "spaced_pipe"}
         IN <<SubSeq(s, 1, i - 1)>> \o split(SubSeq(s, i + 1, Len(s)))

\* triplet.count("→") + triplet.count("->")
arrows(triplet) == Cardinality({i \in DOMAIN triplet : triplet[i] = "arrow"})

\* " | ".join(valid_triplets)
RECURSIVE join(_)
join(triplets) ==
    IF triplets = <<>> THEN <<>>
    ELSE IF Len(triplets) = 1 THEN triplets[1]
    ELSE triplets[1] \o <<"spaced_pipe">> \o join(Tail(triplets))

\* step 3: the triplets with at least two arrows, joined again
valid_triplets(s) ==
    IF s = <<>> THEN <<>>
    ELSE join(SelectSeq(split(s), LAMBDA triplet : arrows(triplet) >= 2))

\* metadata[field][:limit]: a run of text is cut where the limit falls; of
\* " | " the pipe is kept when it lies before the limit
RECURSIVE slice(_, _)
slice(s, limit) ==
    IF s = <<>> \/ limit <= 0 THEN <<>>
    ELSE IF token_len(Head(s)) <= limit
         THEN <<Head(s)>> \o slice(Tail(s), limit - token_len(Head(s)))
    ELSE IF Head(s) = "T" THEN <<"T_part">>
    ELSE IF Head(s) = "spaced_pipe" /\ limit >= 2 THEN <<"pipe">>
    ELSE <<>>

\* step 4 on one field: nothing when the value fits; else the slice, cut at
\* its last comma or pipe when that is not its first character
truncate(s, limit) ==
    IF len(s) <= limit THEN s
    ELSE LET truncated == slice(s, limit)
             seps == {i \in DOMAIN truncated :
                         truncated[i] \in {"pipe", "spaced_pipe", "comma"}}
             last_sep == IF seps = {} THEN 0
                         ELSE CHOOSE i \in seps : \A j \in seps : j <= i
         IN IF last_sep > 1 THEN SubSeq(truncated, 1, last_sep - 1)
            ELSE truncated

\* extract_metadata post-processes the fields the LLM returned
clean_metadata_response(raw) ==
    /\ meta.pc = "idle"
    /\ meta' = [pc |-> "done", entity_relationships |-> raw,
                out |-> truncate(valid_triplets(raw),
                                 ENTITY_RELATIONSHIPS_LIMIT)]
    /\ UNCHANGED nonMetaVars

FieldValues ==
    UNION {[1..n -> RawTokens] : n \in 0..MaxTokens}

InitMeta ==
    /\ MetaParked /\ LearnParked /\ BoostParked /\ BatchParked
    /\ InitIngestVars /\ RetryParked /\ CacheParked /\ SemParked
    /\ RetrieveParked /\ RecordsParked /\ IntentParked
    /\ AccessParked
    /\ LoopParked
    /\ ServedParked
    /\ KeyedParked

NextMeta == \E raw \in FieldValues : clean_metadata_response(raw)

SpecMeta == InitMeta /\ [][NextMeta]_vars

(* C31: in every metadata output, after all post-processing including the *)
(* truncation to the field cap, each item of entity_relationships has at  *)
(* least two arrow separators.                                             *)
C31_EveryRelationshipHasTwoArrows ==
    (meta.pc = "done" /\ meta.out # <<>>) =>
        \A i \in DOMAIN split(meta.out) : arrows(split(meta.out)[i]) >= 2

-----------------------------------------------------------------------------
(* security_middleware of the internal services                            *)

\* services whose middleware is modelled (the text of the check is the same
\* in all of them)
Services == {"search", "metadata", "chunking"}

\* octets the modelled source addresses are made of
FirstOctets == {8, 10, 100, 127, 172, 192}
SecondOctets == {0, 15, 16, 31, 32, 168}
LastOctets == {1, 254}

\* request.client.host of the modelled requests: IPv4 addresses and ::1
ClientHosts ==
    {[v6 |-> FALSE, octets |-> <<a, b, 0, d>>] :
        a \in FirstOctets, b \in SecondOctets, d \in LastOctets}
    \cup {[v6 |-> TRUE, octets |-> <<0, 0, 0, 1>>]}

\* the string request.client.host, as the sequence of its octet numerals
\* and dots
host_text(host) ==
    IF host.v6 THEN <<"::1">>
    ELSE <<ToString(host.octets[1]), ".", ToString(host.octets[2]), ".",
           ToString(host.octets[3]), ".", ToString(host.octets[4])>>

\* str.startswith
startswith(text, prefix) ==
    /\ Len(prefix) <= Len(text)
    /\ SubSeq(text, 1, Len(prefix)) = prefix

\* the two tests of security_middleware
passes_middleware(client_host) ==
    \/ client_host \in {<<"127", ".", "0", ".", "0", ".", "1">>,
                        <<"localhost">>, <<"::1">>}
    \/ \E prefix \in {<<"172", ".">>, <<"10", ".">>,
                      <<"192", ".", "168", ".">>} :
           startswith(client_host, prefix)

\* a request reaches the service: call_next (the handler's status) or 403
security_middleware(service, host) ==
    /\ access.pc = "idle"
    /\ access' = [pc |-> "done", service |-> service, client_host |-> host,
                  status |-> IF passes_middleware(host_text(host))
                             THEN 200 ELSE 403]
    /\ UNCHANGED nonAccessVars

InitAccess ==
    /\ AccessParked /\ LearnParked /\ BoostParked /\ BatchParked
    /\ MetaParked
    /\ InitIngestVars /\ RetryParked /\ CacheParked /\ SemParked
    /\ RetrieveParked /\ RecordsParked /\ IntentParked
    /\ LoopParked
    /\ ServedParked
    /\ KeyedParked

NextAccess ==
    \E service \in Services, host \in ClientHosts :
        security_middleware(service, host)

SpecAccess == InitAccess /\ [][NextAccess]_vars

\* 127.0.0.1, ::1, 10.0.0.0/8, 172.16.0.0/12, 192.168.0.0/16
in_allowed_ranges(host) ==
    IF host.v6 THEN host.octets = <<0, 0, 0, 1>>
    ELSE \/ host.octets = <<127, 0, 0, 1>>
         \/ host.octets[1] = 10
         \/ host.octets[1] = 172 /\ host.octets[2] \in 16..31
         \/ host.octets[1] = 192 /\ host.octets[2] = 168

(* C33: a service answers 403, before any handler runs, every request      *)
(* whose source address is not 127.0.0.1, ::1, or inside 10.0.0.0/8,       *)
(* 172.16.0.0/12 or 192.168.0.0/16; addresses of 172.0.0.0/8 outside       *)
(* 172.16.0.0/12 are rejected.                                             *)
C33_OutsideAddressRejected ==
    (access.pc = "done" /\ ~in_allowed_ranges(access.client_host)) =>
        access.status = 403

-----------------------------------------------------------------------------
(* The request handlers of a caching service on the asyncio event loop     *)

\* largest number of request handlers in flight at once
MaxCoroutines == 2

Coroutines == 1..MaxCoroutines

\* MetadataCache wraps get and set in `with self._lock` (threading.RLock);
\* ResponseCache and EmbeddingsCache have no lock
has_lock(kind) == kind = "metadata"

\* positions of a handler inside a cache operation
InsideCache == {"in_get", "in_set"}

\* uvicorn accepts a request: the handler coroutine is scheduled
request_scheduled(h) ==
    /\ loop.pc[h] = "idle"
    /\ loop' = [loop EXCEPT !.pc[h] = "scheduled"]
    /\ UNCHANGED nonLoopVars

\* the event loop, running nothing, runs a scheduled handler up to its
\* call of cache.get
coroutine_runs(h) ==
    /\ loop.running = 0
    /\ loop.pc[h] = "scheduled"
    /\ loop' = [loop EXCEPT !.running = h, !.pc[h] = "before_get"]
    /\ UNCHANGED nonLoopVars

\* cache.get is entered as if the operation held an await: the coroutine is
\* suspended inside it and the event loop is free
get_enters_and_awaits(h) ==
    /\ loop.running = h
    /\ loop.pc[h] = "before_get"
    /\ loop' = [loop EXCEPT
                   !.pc[h] = "in_get",
                   !.running = 0,
                   !.lock_depth = IF has_lock(loop.kind) THEN @ + 1 ELSE @]
    /\ UNCHANGED nonLoopVars

\* cache.get is entered: a plain call of the running coroutine; the RLock,
\* owned by the one thread of the event loop, is acquired where there is one
get_enters(h) ==
    /\ loop.running = h
    /\ loop.pc[h] = "before_get"
    /\ loop' = [loop EXCEPT
                   !.pc[h] = "in_get",
                   !.lock_depth = IF has_lock(loop.kind) THEN @ + 1 ELSE @]
    /\ UNCHANGED nonLoopVars

\* cache.get has deleted the expired entry or moved the entry to the end
\* and counted the hit, and returns
get_leaves(h, hit) ==
    /\ loop.running = h
    /\ loop.pc[h] = "in_get"
    /\ loop' = [loop EXCEPT
                   !.pc[h] = IF hit THEN "respond" ELSE "call_upstream",
                   !.lock_depth = IF has_lock(loop.kind) THEN @ - 1 ELSE @]
    /\ UNCHANGED nonLoopVars

\* after a miss the handler awaits the LLM or the embeddings provider: the
\* coroutine is suspended and the event loop is free
awaits_upstream(h) ==
    /\ loop.running = h
    /\ loop.pc[h] = "call_upstream"
    /\ loop' = [loop EXCEPT !.pc[h] = "upstream", !.running = 0]
    /\ UNCHANGED nonLoopVars

\* the upstream call is over and the event loop resumes the handler, which
\* runs up to its call of cache.set
upstream_resumes(h) ==
    /\ loop.running = 0
    /\ loop.pc[h] = "upstream"
    /\ loop' = [loop EXCEPT !.running = h, !.pc[h] = "before_set"]
    /\ UNCHANGED nonLoopVars

\* cache.set is entered
set_enters(h) ==
    /\ loop.running = h
    /\ loop.pc[h] = "before_set"
    /\ loop' = [loop EXCEPT
                   !.pc[h] = "in_set",
                   !.lock_depth = IF has_lock(loop.kind) THEN @ + 1 ELSE @]
    /\ UNCHANGED nonLoopVars

\* cache.set has evicted at capacity and stored the entry, and returns
set_leaves(h) ==
    /\ loop.running = h
    /\ loop.pc[h] = "in_set"
    /\ loop' = [loop EXCEPT
                   !.pc[h] = "respond",
                   !.lock_depth = IF has_lock(loop.kind) THEN @ - 1 ELSE @]
    /\ UNCHANGED nonLoopVars

\* the handler returns its response and the coroutine ends
handler_responds(h) ==
    /\ loop.running = h
    /\ loop.pc[h] = "respond"
    /\ loop' = [loop EXCEPT !.pc[h] = "idle", !.running = 0]
    /\ UNCHANGED nonLoopVars

InitLoop ==
    /\ loop \in [kind : CacheKinds, running : {0},
                 pc : [Coroutines -> {"idle"}], lock_depth : {0}]
    /\ LearnParked /\ BoostParked /\ BatchParked /\ MetaParked
    /\ AccessParked
    /\ InitIngestVars /\ RetryParked /\ CacheParked /\ SemParked
    /\ RetrieveParked /\ RecordsParked /\ IntentParked
    /\ ServedParked
    /\ KeyedParked

NextLoop ==
    \E h \in Coroutines :
        \/ request_scheduled(h)
        \/ coroutine_runs(h)
        \/ get_enters(h)
        \/ \E hit \in BOOLEAN : get_leaves(h, hit)
        \/ awaits_upstream(h)
        \/ upstream_resumes(h)
        \/ set_enters(h)
        \/ set_leaves(h)
        \/ handler_responds(h)

SpecLoop == InitLoop /\ [][NextLoop]_vars

-----------------------------------------------------------------------------
(* Serving hits from one cache entry                                       *)

\* largest number of hits served from the entry
MaxHits == 2

\* tenants of the LLM gateway: "Internal" for localhost, else the tenant of
\* the API key
GatewayTenants == {"Internal", "t1", "t2"}

\* time.time() - entry.timestamp at a hit, within the TTL
Ages == {"1s", "2s", "3s"}

\* served.entry is the stored dict together with the dicts nested in it:
\* the field metadata is the one nested dict object of a gateway response,
\* shared by every shallow copy of the stored dict.

\* the response the handler builds after a miss, and stores
fresh_response(kind, payload, tenant) ==
    CASE kind = "llm" ->
             [NoDict EXCEPT !.payload = payload, !.tenant = tenant,
                            !.metadata = [tenant |-> tenant,
                                          cached |-> "False"]]
      [] kind = "metadata" ->
             [NoDict EXCEPT !.payload = payload, !.cached = "False"]
      [] OTHER ->
             [NoDict EXCEPT !.payload = payload, !.cached = "False"]

\* a miss: the handler computes the response and cache.set stores it
\* (ResponseCache the dict itself, MetadataCache a copy of the flat dict,
\* EmbeddingsCache the dict made by response.dict())
cache_miss_served(payload, tenant) ==
    /\ ~served.stored
    /\ LET result == fresh_response(served.kind, payload, tenant)
       IN served' = [served EXCEPT !.stored = TRUE, !.entry = result,
                                   !.original = result,
                                   !.returned = result]
    /\ UNCHANGED nonServedVars

\* MetadataCache.get on a hit: the stored dict itself gets the two keys and
\* is returned; extract_metadata builds its response from it
MetadataCache_hit(age) ==
    LET metadata == [served.entry EXCEPT !.cached = "True",
                                         !.cache_age_seconds = age]
    IN  [entry |-> metadata, returned |-> metadata]

\* ResponseCache.get on a hit returns a shallow copy with the two keys;
\* chat_completions then sets tenant in the copy and in the nested metadata
\* dict, which is the stored one
ResponseCache_hit(tenant, age) ==
    LET copy == [served.entry EXCEPT !.cached = "True",
                                     !.cache_age_seconds = age]
        cached_response == [copy EXCEPT !.tenant = tenant,
                                            !.metadata.tenant = tenant]
    IN  [entry |-> [served.entry EXCEPT !.metadata.tenant = tenant],
         returned |-> cached_response]

\* EmbeddingsCache.get on a hit returns a shallow copy with the two keys;
\* create_dense_embeddings builds a DenseEmbeddingResponse from it
EmbeddingsCache_hit(age) ==
    LET copy == [served.entry EXCEPT !.cached = "True",
                                     !.cache_age_seconds = age]
    IN  [entry |-> served.entry, returned |-> copy]

\* a request with the key of the stored entry, within the TTL
cache_hit_served(tenant, age) ==
    /\ served.stored
    /\ served.hits < MaxHits
    /\ LET after == CASE served.kind = "metadata" -> MetadataCache_hit(age)
                      [] served.kind = "llm" -> ResponseCache_hit(tenant, age)
                      [] OTHER -> EmbeddingsCache_hit(age)
       IN served' = [served EXCEPT !.entry = after.entry,
                                   !.returned = after.returned,
                                   !.hits = @ + 1]
    /\ UNCHANGED nonServedVars

InitServed ==
    /\ served \in [kind : CacheKinds, stored : {FALSE}, entry : {NoDict},
                   original : {NoDict}, returned : {NoDict}, hits : {0}]
    /\ LearnParked /\ BoostParked /\ BatchParked /\ MetaParked
    /\ AccessParked /\ LoopParked
    /\ InitIngestVars /\ RetryParked /\ CacheParked /\ SemParked
    /\ RetrieveParked /\ RecordsParked /\ IntentParked
    /\ KeyedParked

NextServed ==
    \/ \E payload \in Values, tenant \in GatewayTenants :
           cache_miss_served(payload, tenant)
    \/ \E tenant \in GatewayTenants, age \in Ages :
           cache_hit_served(tenant, age)

SpecServed == InitServed /\ [][NextServed]_vars

(* C35: serving a cache hit never changes the stored value: the hit        *)
(* returns the originally stored response with only the cached and         *)
(* cache_age_seconds indication added, and every later hit on the key      *)
(* within the TTL still returns that original response.                    *)
C35_HitLeavesStoredValue ==
    served.hits > 0 =>
        /\ served.entry = served.original
        /\ \E age \in Ages :
               served.returned = [served.original EXCEPT
                                     !.cached = "True",
                                     !.cache_age_seconds = age]


-----------------------------------------------------------------------------
(***************************************************************************)
(* The keys of EmbeddingsCache and of MetadataCache                        *)
(*                                                                         *)
(* A text is a sequence of characters.  An embeddings request carries a    *)
(* list of texts, a model and the normalize flag; a metadata request the   *)
(* sanitized chunk text and the extraction parameters.  What a service     *)
(* computes on a miss is known by the input it was computed from.          *)
(***************************************************************************)

MaxChars == 1
MaxTexts == 2
MaxTail == 2

\* text[:1000] of MetadataCache._generate_key
KEY_PREFIX == 1000

Chars == {"a", "|"}
EmbeddingModels == {"jina-embeddings-v3", "bge-m3"}

\* the texts of at most n characters, the empty text included
TextsUpTo(n) == UNION {[1..k -> Chars] : k \in 0..n}

\* request.input as a list: one text or more ("if not texts" answers 400)
TextLists == UNION {[1..k -> TextsUpTo(MaxChars)] : k \in 1..MaxTexts}

\* "|".join(texts)
RECURSIVE join_texts(_)
join_texts(texts) ==
    IF texts = <<>> THEN <<>>
    ELSE IF Len(texts) = 1 THEN texts[1]
    ELSE texts[1] \o <<"|">> \o join_texts(Tail(texts))

\* str(normalize) of the f-string
str_bool(b) == IF b THEN "True" ELSE "False"

\* EmbeddingsCache._generate_key: f"{text_key}_{model}_{normalize}", the
\* name of the model and the text of the flag each taken as one character
EmbeddingsCache_generate_key(texts, model, normalize) ==
    join_texts(texts) \o <<"_", model, "_", str_bool(normalize)>>

\* chunk texts around KEY_PREFIX characters long: KEY_PREFIX - 1 times "a"
\* and a tail of "a" and "b"
TextTails == UNION {[1..k -> {"a", "b"}] : k \in 0..MaxTail}
ChunkTexts == {[i \in 1..(KEY_PREFIX - 1) |-> "a"] \o tail : tail \in TextTails}
MetadataModels == {"7B", "72B"}

\* text[:n]
text_prefix(text, n) == SubSeq(text, 1, IF Len(text) < n THEN Len(text) ELSE n)

\* MetadataCache._generate_key: str(hash(key_tuple)), with a hash that tells
\* any two tuples apart (the 64 bits of hash() can only tell fewer apart);
\* the counts and the summary length are the defaults of MetadataRequest
MetadataCache_generate_key(text, keywords_count, topics_count, questions_count, summary_length, model, flavor, extraction_mode) ==
    <<text_prefix(text, KEY_PREFIX), Len(text), keywords_count, topics_count,
      questions_count, summary_length, model, flavor, extraction_mode>>

\* the time of a request that finds the entries of the cache within their
\* ttl, or past it; every entry is stamped 0
request_time(expired) == IF expired THEN Ttl + 1 ELSE 0

\* "if cached_result:" after cache.get
is_hit(entries, key, expired) ==
    /\ key \in KeysOf(entries)
    /\ ~is_expired(EntryOf(entries, key).timestamp, request_time(expired))

\* POST /v1/embeddings, create_dense_embeddings with ENABLE_CACHING: a hit
\* answers DenseEmbeddingResponse(**cached_result); a miss, or an entry
\* older than the ttl, calls the provider with texts and model and caches
\* response.dict()
dense_embeddings_served(texts, model, normalize, expired) ==
    /\ keyed.service = "embeddings"
    /\ LET key == EmbeddingsCache_generate_key(texts, model, normalize)
           looked == EmbeddingsCache_get(keyed.embeddings_cache, key,
                                         request_time(expired)).cache
           dict == [embeddings_of |-> texts, model |-> model,
                    cached |-> FALSE]
       IN  IF is_hit(keyed.embeddings_cache, key, expired)
           THEN keyed' = [keyed EXCEPT
                    !.pc = "hit",
                    !.embedding_request = [texts |-> texts, model |-> model,
                                           normalize |-> normalize],
                    !.embeddings_cache = looked,
                    !.embedding_response =
                        [EntryOf(looked, key).value EXCEPT !.cached = TRUE]]
           ELSE keyed' = [keyed EXCEPT
                    !.pc = "miss",
                    !.embedding_request = [texts |-> texts, model |-> model,
                                           normalize |-> normalize],
                    !.embeddings_cache =
                        EmbeddingsCache_set(looked, key, dict, 0),
                    !.embedding_response = dict]
    /\ UNCHANGED nonKeyedVars

\* POST /v1/metadata, extract_metadata with ENABLE_CACHING, on the sanitized
\* text: a hit answers the cached metadata; a miss, or an entry older than
\* the ttl, extracts the metadata of the text and caches it
extract_metadata_served(text, model, expired) ==
    /\ keyed.service = "metadata"
    /\ LET key == MetadataCache_generate_key(text, "5", "3", "3", "2",
                                             model, "base", "basic")
           looked == MetadataCache_get(keyed.metadata_cache, key,
                                       request_time(expired)).cache
           result == [extracted_from |-> text, model |-> model,
                      flavor |-> "base", cached |-> FALSE]
       IN  IF is_hit(keyed.metadata_cache, key, expired)
           THEN keyed' = [keyed EXCEPT
                    !.pc = "hit",
                    !.metadata_request = [text |-> text, model |-> model,
                                          flavor |-> "base"],
                    !.metadata_cache = looked,
                    !.metadata =
                        [EntryOf(looked, key).value EXCEPT !.cached = TRUE]]
           ELSE keyed' = [keyed EXCEPT
                    !.pc = "miss",
                    !.metadata_request = [text |-> text, model |-> model,
                                          flavor |-> "base"],
                    !.metadata_cache =
                        MetadataCache_set(looked, key, result, 0),
                    !.metadata = result]
    /\ UNCHANGED nonKeyedVars

InitKeyed ==
    /\ keyed \in [service : {"embeddings", "metadata"}, pc : {"idle"},
                  embeddings_cache : {<<>>}, metadata_cache : {<<>>},
                  embedding_request : {NoEmbeddingRequest},
                  embedding_response : {NoEmbeddingResponse},
                  metadata_request : {NoMetadataRequest},
                  metadata : {NoMetadata}]
    /\ LearnParked /\ BoostParked /\ BatchParked /\ MetaParked
    /\ AccessParked /\ LoopParked /\ ServedParked
    /\ InitIngestVars /\ RetryParked /\ CacheParked /\ SemParked
    /\ RetrieveParked /\ RecordsParked /\ IntentParked

NextKeyed ==
    \/ \E texts \in TextLists, model \in EmbeddingModels, normalize, expired \in BOOLEAN :
          dense_embeddings_served(texts, model, normalize, expired)
    \/ \E text \in ChunkTexts, model \in MetadataModels, expired \in BOOLEAN :
          extract_metadata_served(text, model, expired)

SpecKeyed == InitKeyed /\ [][NextKeyed]_vars

(* C40: entries keys are injective on the request fingerprint: two requests  *)
(* that differ in a keyed input (embeddings: the list of texts, the model, *)
(* the normalize flag; metadata: the chunk text and the extraction         *)
(* parameters) never map to the same entries entry, so a hit never returns a *)
(* result computed for a different input.                                  *)
C40_HitReturnsResultOfSameInput ==
    keyed.pc = "hit" =>
        /\ keyed.service = "embeddings" =>
              /\ keyed.embedding_response.embeddings_of =
                     keyed.embedding_request.texts
              /\ keyed.embedding_response.model = keyed.embedding_request.model
        /\ keyed.service = "metadata" =>
              /\ keyed.metadata.extracted_from = keyed.metadata_request.text
              /\ keyed.metadata.model = keyed.metadata_request.model

=============================================================================
